---- MODULE Spec2Model ----
(***************************************************************************)
(* Model of n8n-nodes-stellar: the network configuration resolvers         *)
(* (constants/networks.ts), the operation dispatcher Stellar.execute and   *)
(* the trigger subscription manager StellarTrigger.trigger.                *)
(*                                                                         *)
(* Strings produced by template literals are modelled as tuples of their   *)
(* fragments: `Unknown resource: ${r}` is <<"Unknown resource: ", r>>.     *)
(* Every error message is therefore a tuple of strings.                    *)
(***************************************************************************)
EXTENDS Integers, Sequences, FiniteSets, TLC

VARIABLES
    \* process-wide state (global object)
    licensingLogged,    \* [stellar, stellarTrigger] -> BOOLEAN, the two Symbol.for flags
    warnings,           \* number of console.warn calls, per node type
    \* Stellar.execute: locals of the invocation in progress
    pc,                 \* "idle" | "loop" | "await" | "done" | "rejected"
    continueOnFail,     \* this.continueOnFail()
    nItems,             \* items.length
    selector,           \* the node's resource and operation parameters (noDataExpression)
    credentials,        \* this.getCredentials('stellarNetwork')
    i,                  \* loop index, 1-based; 0 before the loop is entered
    returnData,         \* results pushed so far
    network,            \* credentials.network
    horizonUrl,         \* URL the Horizon server was constructed with
    networkPassphrase,
    keypair,            \* public key of the keypair, NoValue when undefined
    sorobanRpcUrl,      \* credentials.sorobanRpcUrl
    cur,                \* parameters of the item being processed
    pending,            \* the network call being awaited
    thrown,             \* error thrown by setup or by the current item, <<>> if none
    responses,          \* what the upstream answered to the current item's calls
    returned,           \* value execute resolved with
    trace,              \* parameter reads, network calls and signatures of the current item
    sorobanServer,      \* URL the current item's Soroban RPC client was constructed with
    request,            \* operations added to the current item's transaction builder,
                        \* or the assets passed to its orderbook / trades query
    \* StellarTrigger.trigger: locals of the activation in progress
    tpc,                \* "idle" | "active" | "failed"
    tCredentials,       \* this.getCredentials('stellarNetwork')
    event, accountId, cursor,   \* the trigger's node parameters
    closeFunction,      \* the local closeFunction: NoHandle or the handle stream() returned
    subs,               \* subscriptions opened on the Horizon server, in order
    delivered,          \* records the upstream passed to onmessage
    emitted,            \* argument lists passed to this.emit
    errorsLogged,       \* console.error calls made by onerror
    teardowns,          \* completed calls of closeCallback
    tThrown,            \* error trigger rejected with
    \* application of one resolver to drawn arguments
    call,               \* [fn, network, custom]
    out                 \* result of the application

vars == <<licensingLogged, warnings, pc, continueOnFail, nItems, selector, credentials,
          i, returnData, network, horizonUrl, networkPassphrase, keypair, sorobanRpcUrl,
          cur, pending, thrown, responses, returned, trace, sorobanServer, request,
          tpc, tCredentials, event, accountId, cursor, closeFunction, subs, delivered,
          emitted, errorsLogged, teardowns, tThrown, call, out>>

execVars == <<pc, continueOnFail, nItems, selector, credentials, i, returnData, network,
              horizonUrl, networkPassphrase, keypair, sorobanRpcUrl, cur, pending,
              thrown, responses, returned, trace, sorobanServer, request>>

trigVars == <<tpc, tCredentials, event, accountId, cursor, closeFunction, subs, delivered, emitted, errorsLogged,
              teardowns, tThrown>>

resolveVars == <<call, out>>

(***************************************************************************)
(* Bounds                                                                  *)
(***************************************************************************)
MaxItems == 2
MaxRecords == 2
MaxErrors == 2
MaxTeardowns == 2

(***************************************************************************)
(* Values                                                                  *)
(***************************************************************************)
NoValue == "<undefined>"
NoJson == [undefined |-> TRUE]
NoHandle == 0

Falsy(s) == s = NoValue \/ s = ""

Ok(v) == [threw |-> FALSE, value |-> v]
Throw(m) == [threw |-> TRUE, value |-> m]

(***************************************************************************)
(* constants/networks.ts                                                   *)
(***************************************************************************)
NetworkType == {"public", "testnet", "futurenet", "custom"}

NETWORK_PASSPHRASES ==
    [public |-> "Public Global Stellar Network ; September 2015",
     testnet |-> "Test SDF Network ; September 2015",
     futurenet |-> "Test SDF Future Network ; October 2022"]

HORIZON_URLS ==
    [public |-> "https://horizon.stellar.org",
     testnet |-> "https://horizon-testnet.stellar.org",
     futurenet |-> "https://horizon-futurenet.stellar.org"]

SOROBAN_RPC_URLS ==
    [public |-> "https://soroban.stellar.org",
     testnet |-> "https://soroban-testnet.stellar.org",
     futurenet |-> "https://rpc-futurenet.stellar.org"]

\* variant: the table also has an entry for public
FRIENDBOT_URLS_public ==
    [public |-> "https://friendbot.stellar.org",
     testnet |-> "https://friendbot.stellar.org",
     futurenet |-> "https://friendbot-futurenet.stellar.org"]

FRIENDBOT_URLS ==
    [testnet |-> "https://friendbot.stellar.org",
     futurenet |-> "https://friendbot-futurenet.stellar.org"]

\* variant: a supplied URL overrides the constant on every network
getHorizonUrl_override(net, customUrl) ==
    IF net = "custom" \/ ~Falsy(customUrl)
    THEN IF Falsy(customUrl)
         THEN Throw(<<"Custom Horizon URL required for custom network">>)
         ELSE Ok(customUrl)
    ELSE Ok(HORIZON_URLS[net])

\* variant: only an absent override is refused, an empty one is returned
getHorizonUrl_lenient(net, customUrl) ==
    IF net = "custom"
    THEN IF customUrl = NoValue
         THEN Throw(<<"Custom Horizon URL required for custom network">>)
         ELSE Ok(customUrl)
    ELSE Ok(HORIZON_URLS[net])

getHorizonUrl(net, customUrl) ==
    IF net = "custom"
    THEN IF Falsy(customUrl)
         THEN Throw(<<"Custom Horizon URL required for custom network">>)
         ELSE Ok(customUrl)
    ELSE Ok(HORIZON_URLS[net])

\* variant: the passphrase of a custom network is not checked
getNetworkPassphrase_lenient(net, customPassphrase) ==
    IF net = "custom"
    THEN Ok(customPassphrase)
    ELSE Ok(NETWORK_PASSPHRASES[net])

getNetworkPassphrase(net, customPassphrase) ==
    IF net = "custom"
    THEN IF Falsy(customPassphrase)
         THEN Throw(<<"Custom network passphrase required for custom network">>)
         ELSE Ok(customPassphrase)
    ELSE Ok(NETWORK_PASSPHRASES[net])

getSorobanRpcUrl(net, customUrl) ==
    IF net = "custom"
    THEN IF Falsy(customUrl)
         THEN Throw(<<"Custom Soroban RPC URL required for custom network">>)
         ELSE Ok(customUrl)
    ELSE Ok(SOROBAN_RPC_URLS[net])

(***************************************************************************)
(* Pieces of the Stellar SDK that execute and trigger rely on              *)
(***************************************************************************)
InsecureUrls == {"http://localhost:8000", "http://localhost:8001"}

\* new StellarSdk.Horizon.Server(url) / new StellarSdk.SorobanRpc.Server(url):
\* the constructors refuse a URL that is not https (allowHttp is not passed).
NewServer(url) ==
    IF url \in InsecureUrls
    THEN Throw(<<"Cannot connect to insecure server">>)
    ELSE Ok(url)

ValidSecret == "SVALIDSECRET"

\* StellarSdk.Keypair.fromSecret(secretKey); the keypair is identified by its public key
KeypairFromSecret(secret) ==
    IF secret = ValidSecret
    THEN Ok("GSOURCE")
    ELSE Throw(<<"invalid encoded string">>)

Native == [type |-> "native", code |-> "XLM", issuer |-> NoValue]

\* variant: native only when the code is XLM
ResolveAsset_strict(code, issuer) ==
    IF code = "XLM"
    THEN Native
    ELSE [type |-> "credit", code |-> code, issuer |-> issuer]

\* code === 'XLM' || !issuer ? Asset.native() : new Asset(code, issuer)
ResolveAsset(code, issuer) ==
    IF code = "XLM" \/ Falsy(issuer)
    THEN Native
    ELSE [type |-> "credit", code |-> code, issuer |-> issuer]

\* variant: only a missing issuer makes the asset native
IsNativeAsset_issuerOnly(code, issuer) == Falsy(issuer)

\* assetCode === 'XLM' || !assetIssuer
IsNativeAsset(code, issuer) == code = "XLM" \/ Falsy(issuer)

UPSTREAM_ERROR == <<"Request failed">>
SDK_ERROR == <<"invalid parameter">>

(***************************************************************************)
(* Credentials and item parameters supplied by the host                    *)
(***************************************************************************)
\* the credential form shows the two custom fields only when network is custom;
\* hidden fields keep their default ''
Credentials ==
    {c \in [network : NetworkType,
            customHorizonUrl : {"", "https://custom-horizon.example.com",
                                "http://localhost:8000"},
            customNetworkPassphrase : {"", "Custom Network ; Test"},
            secretKey : {"", ValidSecret, "not-a-secret"},
            sorobanRpcUrl : {"", "https://custom-soroban.example.com",
                             "http://localhost:8001"}] :
        c.network # "custom" => c.customHorizonUrl = "" /\ c.customNetworkPassphrase = ""}

NoCredentials ==
    [network |-> NoValue, customHorizonUrl |-> NoValue, customNetworkPassphrase |-> NoValue,
     secretKey |-> NoValue, sorobanRpcUrl |-> NoValue]

Resources == {"account", "payment", "asset", "dex", "transaction", "ledger", "soroban"}

OperationsOf(resource) ==
    CASE resource = "account" ->
            {"generateKeypair", "getInfo", "fundTestnet", "createAccount",
             "mergeAccount", "setData", "setOptions"}
      [] resource = "payment" ->
            {"sendPayment", "pathPayment", "createClaimableBalance", "claimBalance"}
      [] resource = "asset" -> {"changeTrust", "getAssetInfo", "issueAsset"}
      [] resource = "dex" ->
            {"getOrderbook", "createSellOffer", "createBuyOffer", "cancelOffer",
             "listOffers", "getTrades"}
      [] resource = "transaction" -> {"getTransaction", "signXdr", "submitXdr"}
      [] resource = "ledger" -> {"getLatest", "getBySequence", "getFeeStats"}
      [] resource = "soroban" -> {"getHealth", "simulateTransaction", "invokeContract"}
      [] OTHER -> {}

\* operations that read assetCode / assetIssuer
ReadsAsset == {"sendPayment", "pathPayment", "createClaimableBalance", "changeTrust",
               "getAssetInfo", "getTrades"}

\* operations that read the selling and the buying asset
ReadsPair == {"getOrderbook", "createSellOffer", "createBuyOffer"}

\* operations whose parameters go through an SDK parser or constructor before
\* the first network call (JSON.parse, fromXDR, new Asset, new Contract)
ParsesEarly == ReadsAsset \cup ReadsPair \cup
               {"issueAsset", "signXdr", "submitXdr", "simulateTransaction", "invokeContract"}

\* operations that build a transaction from the item's parameters
BuildsTransaction ==
    {"createAccount", "mergeAccount", "setData", "setOptions", "sendPayment",
     "pathPayment", "createClaimableBalance", "claimBalance", "changeTrust",
     "issueAsset", "createSellOffer", "createBuyOffer", "cancelOffer",
     "simulateTransaction", "invokeContract"}

NoItem ==
    [resource |-> NoValue, operation |-> NoValue, assetCode |-> NoValue,
     assetIssuer |-> NoValue, buyingCode |-> NoValue, buyingIssuer |-> NoValue,
     homeDomain |-> NoValue, inflationDest |-> NoValue, sdk |-> "accepts"]

AssetCodes == {"XLM", "USD"}
AssetIssuers == {"", "GISSUER"}

\* how the SDK treats the item's parameters: it accepts them, rejects them in a
\* parser or constructor, or rejects them while the transaction is built
SdkVerdicts(op) ==
    {"accepts"} \cup (IF op \in ParsesEarly THEN {"rejectsParse"} ELSE {})
                \cup (IF op \in BuildsTransaction THEN {"rejectsBuild"} ELSE {})

\* what getNodeParameter can return for one item
ItemsOf(resource, op) ==
    {[resource |-> resource, operation |-> op, assetCode |-> c, assetIssuer |-> s,
      buyingCode |-> bc, buyingIssuer |-> bs, homeDomain |-> hd, inflationDest |-> dest,
      sdk |-> v] :
        c \in (IF op \in ReadsAsset \cup ReadsPair THEN AssetCodes ELSE {NoValue}),
        s \in (IF op \in ReadsAsset \cup ReadsPair THEN AssetIssuers ELSE {NoValue}),
        bc \in (IF op \in ReadsPair THEN AssetCodes ELSE {NoValue}),
        bs \in (IF op \in ReadsPair THEN AssetIssuers ELSE {NoValue}),
        hd \in (IF op = "setOptions" THEN {"", "example.com"} ELSE {NoValue}),
        dest \in (IF op = "setOptions" THEN {"", "GINFLATION"} ELSE {NoValue}),
        v \in SdkVerdicts(op)}

\* resource and operation are declared noDataExpression: they are parameters of
\* the node, the same for every item of a run
Selectors ==
    {[resource |-> r, operation |-> op] : r \in Resources, op \in {"bogus", "getInfo"}}
    \cup UNION {{[resource |-> r, operation |-> op] : op \in OperationsOf(r)} :
                 r \in Resources}
    \cup {[resource |-> "bogus", operation |-> op] : op \in {"bogus", "getInfo"}}

NoSelector == [resource |-> NoValue, operation |-> NoValue]

(***************************************************************************)
(* Stellar.execute: what one item does between two awaits                  *)
(***************************************************************************)
\* network calls an item can be awaiting
HorizonCalls == {"loadAccount", "submitTransaction", "assets", "orderbook", "offers",
                 "trades", "transaction", "ledgers", "ledger", "feeStats"}
SorobanCalls == {"getHealth", "getAccount", "simulateTransaction", "sendTransaction"}
NetworkCalls == HorizonCalls \cup SorobanCalls \cup {"friendbot"}

Event(name) == <<[item |-> i, ev |-> name]>>

\* k calls of this.getNodeParameter(..., i)
Reads(k) == [x \in 1..k |-> [item |-> i, ev |-> "getNodeParameter"]]

\* number of parameters an operation reads after resource and operation
ParamCount(op) ==
    CASE op \in {"createSellOffer", "createBuyOffer"} -> 6
      [] op \in {"sendPayment", "pathPayment", "createClaimableBalance", "getOrderbook"} -> 4
      [] op \in {"changeTrust", "issueAsset", "simulateTransaction", "invokeContract"} -> 3
      [] op \in {"createAccount", "setData", "setOptions", "getAssetInfo", "getTrades"} -> 2
      [] op \in {"getInfo", "fundTestnet", "mergeAccount", "claimBalance", "cancelOffer",
                 "getTransaction", "signXdr", "submitXdr", "getBySequence"} -> 1
      [] OTHER -> 0

\* outcome of a synchronous stretch of the item: it throws, it produces the
\* item's result, or it issues a network call and awaits it
Thrown(msg, ev) == [t |-> "throw", msg |-> msg, json |-> NoJson, call |-> "none", ev |-> ev]
Result(json, ev) == [t |-> "result", msg |-> <<>>, json |-> json, call |-> "none", ev |-> ev]
Await(c, ev) == [t |-> "await", msg |-> <<>>, json |-> NoJson, call |-> c, ev |-> ev \o Event(c)]

SecretKeyMessage(op) ==
    CASE op = "createAccount" -> <<"Secret key required for creating accounts">>
      [] op = "mergeAccount" -> <<"Secret key required for merging accounts">>
      [] op = "setData" -> <<"Secret key required for setting data">>
      [] op = "setOptions" -> <<"Secret key required for setting options">>
      [] op = "sendPayment" -> <<"Secret key required for payments">>
      [] op = "pathPayment" -> <<"Secret key required for path payments">>
      [] op = "changeTrust" -> <<"Secret key required for trustlines">>
      [] op = "listOffers" -> <<"Secret key required to list your offers">>
      [] op = "signXdr" -> <<"Secret key required for signing">>
      [] op \in {"simulateTransaction", "invokeContract"} ->
            <<"Secret key required for contract operations">>
      [] OTHER -> <<"Secret key required">>

\* variant: one message for every resource
UnknownOperation_generic(resource, op) == <<"Unknown operation: ", op>>

UnknownOperation(resource, op) ==
    CASE resource = "account" -> <<"Unknown account operation: ", op>>
      [] resource = "payment" -> <<"Unknown payment operation: ", op>>
      [] resource = "asset" -> <<"Unknown asset operation: ", op>>
      [] resource = "dex" -> <<"Unknown DEX operation: ", op>>
      [] resource = "transaction" -> <<"Unknown transaction operation: ", op>>
      [] resource = "ledger" -> <<"Unknown ledger operation: ", op>>
      [] resource = "soroban" -> <<"Unknown soroban operation: ", op>>
      [] OTHER -> <<"Unknown resource: ", resource>>

\* response.data / records[0] / the response object of a successful call
Payload(c, body) == [from |-> c, request |-> i, body |-> body]

\* variant: the signing-key guard is missing
NoKeypair_never(kp) == FALSE

\* !keypair
NoKeypair(kp) == kp = NoValue

\* variant: the override is given to the resolver, which reads it on custom only
ResolveRpcUrl_resolver == getSorobanRpcUrl(network, sorobanRpcUrl)

\* const rpcUrl = sorobanRpcUrl || getSorobanRpcUrl(network)
ResolveRpcUrl ==
    IF ~Falsy(sorobanRpcUrl) THEN Ok(sorobanRpcUrl)
    ELSE getSorobanRpcUrl(network, NoValue)

\* the URL new StellarSdk.SorobanRpc.Server(rpcUrl) was given, when the item
\* constructed the client
SorobanServer(item) ==
    IF item.resource # "soroban" \/ ResolveRpcUrl.threw THEN NoValue
    ELSE IF NewServer(ResolveRpcUrl.value).threw THEN NoValue
    ELSE ResolveRpcUrl.value

NoAsset == [type |-> "none", code |-> NoValue, issuer |-> NoValue]

\* one operation of a transaction, or one query, with the assets and the
\* option fields it carries
Operation(type, asset, other, fields) ==
    [type |-> type, asset |-> asset, other |-> other, fields |-> fields]

\* variant: no operation is added when both fields are empty
setOptions_nonEmpty(homeDomain, inflationDest) ==
    (IF ~Falsy(homeDomain)
     THEN <<Operation("setOptions", NoAsset, NoAsset, {"homeDomain"})>> ELSE <<>>)
    \o (IF ~Falsy(inflationDest)
        THEN <<Operation("setOptions", NoAsset, NoAsset, {"inflationDest"})>> ELSE <<>>)

\* lines 626-634: the operations the setOptions branch adds to its builder
setOptions(homeDomain, inflationDest) ==
    (IF ~Falsy(homeDomain)
     THEN <<Operation("setOptions", NoAsset, NoAsset, {"homeDomain"})>> ELSE <<>>)
    \o (IF ~Falsy(inflationDest)
        THEN <<Operation("setOptions", NoAsset, NoAsset, {"inflationDest"})>> ELSE <<>>)
    \o (IF Falsy(homeDomain) /\ Falsy(inflationDest)
        THEN <<Operation("setOptions", NoAsset, NoAsset, {})>> ELSE <<>>)

\* the operations an item adds to its transaction builder, or the assets it
\* passes to its orderbook / trades query
Operations(item) ==
    LET op == item.operation
        asset == ResolveAsset(item.assetCode, item.assetIssuer)
        buying == ResolveAsset(item.buyingCode, item.buyingIssuer)
        One(type, a, b) == <<Operation(type, a, b, {})>>
    IN
    CASE op = "createAccount" -> One("createAccount", NoAsset, NoAsset)
      [] op = "mergeAccount" -> One("accountMerge", NoAsset, NoAsset)
      [] op = "setData" -> One("manageData", NoAsset, NoAsset)
      [] op = "setOptions" -> setOptions(item.homeDomain, item.inflationDest)
      [] op = "sendPayment" -> One("payment", asset, NoAsset)
      [] op = "pathPayment" -> One("pathPaymentStrictReceive", asset, Native)
      [] op = "createClaimableBalance" -> One("createClaimableBalance", asset, NoAsset)
      [] op = "claimBalance" -> One("claimClaimableBalance", NoAsset, NoAsset)
      [] op = "changeTrust" ->
            One("changeTrust",
                [type |-> "credit", code |-> item.assetCode, issuer |-> item.assetIssuer],
                NoAsset)
      [] op = "issueAsset" ->
            One("payment", [type |-> "credit", code |-> item.assetCode, issuer |-> keypair],
                NoAsset)
      [] op = "getOrderbook" -> One("orderbook", asset, buying)
      [] op = "createSellOffer" -> One("manageSellOffer", asset, buying)
      [] op = "createBuyOffer" -> One("manageBuyOffer", asset, buying)
      [] op = "cancelOffer" -> One("manageSellOffer", Native, Native)
      [] op = "getTrades" ->
            IF item.assetCode # "XLM" /\ ~Falsy(item.assetIssuer)
            THEN One("forAssetPair", Native,
                     [type |-> "credit", code |-> item.assetCode,
                      issuer |-> item.assetIssuer])
            ELSE <<>>
      [] op \in {"simulateTransaction", "invokeContract"} ->
            One("invokeHostFunction", NoAsset, NoAsset)
      [] OTHER -> <<>>

\* the builder's operations, or the query's assets, once the stretch o of the
\* item has built its transaction or issued its orderbook / trades query
Requested(o, item, before) ==
    IF \E k \in 1..Len(o.ev) : o.ev[k].ev \in {"build", "orderbook", "trades"}
    THEN Operations(item)
    ELSE before

\* From the top of the try block to the first await, the result or the throw.
Begin(item) ==
    LET op == item.operation
        res == item.resource
        hdr == Reads(2)
        params == hdr \o Reads(ParamCount(op))
        asset == ResolveAsset(item.assetCode, item.assetIssuer)
        buying == ResolveAsset(item.buyingCode, item.buyingIssuer)
        rejects == item.sdk = "rejectsParse"
        \* if (!keypair) throw ...; read parameters; construct assets, claimants;
        \* await server.loadAccount(keypair.publicKey())
        SignedTx(constructs) ==
            IF NoKeypair(keypair) THEN Thrown(SecretKeyMessage(op), hdr)
            ELSE IF constructs /\ rejects THEN Thrown(SDK_ERROR, params)
            ELSE Await("loadAccount", params)
        Query(c) == Await(c, params)
    IN
    IF res = "account" THEN
        IF op = "generateKeypair" THEN
            Result([publicKey |-> "GRANDOM", secretKey |-> "SRANDOM"], hdr)
        ELSE IF op = "getInfo" THEN Query("loadAccount")
        ELSE IF op = "fundTestnet" THEN
            IF network \notin DOMAIN FRIENDBOT_URLS
            THEN Thrown(<<"Friendbot only available on testnet and futurenet">>, params)
            ELSE Query("friendbot")
        ELSE IF op \in {"createAccount", "mergeAccount", "setData", "setOptions"} THEN
            SignedTx(FALSE)
        ELSE Thrown(UnknownOperation(res, op), hdr)
    ELSE IF res = "payment" THEN
        IF op \in {"sendPayment", "pathPayment"} THEN SignedTx(asset # Native)
        ELSE IF op = "createClaimableBalance" THEN SignedTx(TRUE)
        ELSE IF op = "claimBalance" THEN SignedTx(FALSE)
        ELSE Thrown(UnknownOperation(res, op), hdr)
    ELSE IF res = "asset" THEN
        IF op = "changeTrust" THEN
            IF NoKeypair(keypair) THEN Thrown(SecretKeyMessage(op), hdr)
            ELSE IF Falsy(item.assetIssuer)
            THEN Thrown(<<"Asset issuer required for non-native assets">>, params)
            ELSE SignedTx(TRUE)
        ELSE IF op = "getAssetInfo" THEN
            IF IsNativeAsset(item.assetCode, item.assetIssuer)
            THEN Result([type |-> "native", code |-> "XLM", issuer |-> "null"], params)
            ELSE Query("assets")
        ELSE IF op = "issueAsset" THEN SignedTx(TRUE)
        ELSE Thrown(UnknownOperation(res, op), hdr)
    ELSE IF res = "dex" THEN
        IF op = "getOrderbook" THEN
            IF (asset # Native \/ buying # Native) /\ rejects
            THEN Thrown(SDK_ERROR, params)
            ELSE Query("orderbook")
        ELSE IF op \in {"createSellOffer", "createBuyOffer"} THEN
            SignedTx(asset # Native \/ buying # Native)
        ELSE IF op = "cancelOffer" THEN SignedTx(FALSE)
        ELSE IF op = "listOffers" THEN
            IF NoKeypair(keypair) THEN Thrown(SecretKeyMessage(op), hdr)
            ELSE Query("offers")
        ELSE IF op = "getTrades" THEN
            IF item.assetCode # "XLM" /\ ~Falsy(item.assetIssuer) /\ rejects
            THEN Thrown(SDK_ERROR, params)
            ELSE Query("trades")
        ELSE Thrown(UnknownOperation(res, op), hdr)
    ELSE IF res = "transaction" THEN
        IF op = "getTransaction" THEN Query("transaction")
        ELSE IF op = "signXdr" THEN
            IF NoKeypair(keypair) THEN Thrown(SecretKeyMessage(op), hdr)
            ELSE IF rejects THEN Thrown(SDK_ERROR, params)
            ELSE Result([signedXdr |-> "signed", signatures |-> 1],
                        params \o Event("sign"))
        ELSE IF op = "submitXdr" THEN
            IF rejects THEN Thrown(SDK_ERROR, params)
            ELSE Query("submitTransaction")
        ELSE Thrown(UnknownOperation(res, op), hdr)
    ELSE IF res = "ledger" THEN
        IF op = "getLatest" THEN Query("ledgers")
        ELSE IF op = "getBySequence" THEN Query("ledger")
        ELSE IF op = "getFeeStats" THEN Query("feeStats")
        ELSE Thrown(UnknownOperation(res, op), hdr)
    ELSE IF res = "soroban" THEN
        LET rpcUrl == ResolveRpcUrl IN
        IF rpcUrl.threw THEN Thrown(rpcUrl.value, hdr)
        ELSE IF NewServer(rpcUrl.value).threw
        THEN Thrown(NewServer(rpcUrl.value).value, hdr)
        ELSE IF op = "getHealth" THEN Query("getHealth")
        ELSE IF op \in {"simulateTransaction", "invokeContract"} THEN
            IF NoKeypair(keypair) THEN Thrown(SecretKeyMessage(op), hdr)
            ELSE IF rejects THEN Thrown(SDK_ERROR, params)
            ELSE Await("getAccount", params)
        ELSE Thrown(UnknownOperation(res, op), hdr)
    ELSE Thrown(UnknownOperation(res, op), hdr)

\* variant: the built transaction is submitted without being signed
SignAndSubmit_unsigned == Await("submitTransaction", Event("build"))

\* new TransactionBuilder(sourceAccount, ...)...build(); transaction.sign(keypair);
\* await server.submitTransaction(transaction)
SignAndSubmit == Await("submitTransaction", Event("build") \o Event("sign"))

\* variant: no simulation result counts as an error
isSimulationError_never(body) == FALSE

\* StellarSdk.SorobanRpc.Api.isSimulationError(simResult)
isSimulationError(body) == body = "simError"

\* variant: a simulation is always carried on to submission
ReturnsSimulation_never(op) == FALSE

\* if (operation === 'simulateTransaction') result = simResult
ReturnsSimulation(op) == op = "simulateTransaction"

\* variant: an asset without a record is an error of the item
AssetInfo_throws(c, r) ==
    IF r.body = "empty" THEN Thrown(<<"Asset not found">>, <<>>)
    ELSE Result(Payload(c, r.body), <<>>)

\* assets.records.length > 0 ? assets.records[0] : { error: 'Asset not found' }
AssetInfo(c, r) ==
    IF r.body = "empty" THEN Result([error |-> <<"Asset not found">>], <<>>)
    ELSE Result(Payload(c, r.body), <<>>)

\* From the return of an awaited call to the next await, the result or the throw.
\* r.ok tells whether the call resolved; r.body is what it resolved with.
Continue(item, c, r) ==
    LET op == item.operation IN
    IF ~r.ok THEN Thrown(UPSTREAM_ERROR, <<>>)
    ELSE IF c = "loadAccount" THEN
        IF op = "getInfo" THEN Result([account |-> Payload(c, r.body)], <<>>)
        ELSE IF item.sdk = "rejectsBuild" THEN Thrown(SDK_ERROR, <<>>)
        ELSE SignAndSubmit
    ELSE IF c = "assets" THEN AssetInfo(c, r)
    ELSE IF c = "offers" THEN Result([offers |-> Payload(c, r.body)], <<>>)
    ELSE IF c = "trades" THEN Result([trades |-> Payload(c, r.body)], <<>>)
    ELSE IF c = "ledgers" THEN
        IF r.body = "empty" THEN Result(NoJson, <<>>)
        ELSE Result(Payload(c, r.body), <<>>)
    ELSE IF c = "getAccount" THEN
        IF item.sdk = "rejectsBuild" THEN Thrown(SDK_ERROR, <<>>)
        ELSE Await("simulateTransaction", Event("build"))
    ELSE IF c = "simulateTransaction" THEN
        IF ReturnsSimulation(op) THEN Result(Payload(c, r.body), <<>>)
        ELSE IF isSimulationError(r.body)
        THEN Thrown(<<"Simulation failed: ", r.body>>, <<>>)
        ELSE Await("sendTransaction", Event("assemble") \o Event("sign"))
    ELSE Result(Payload(c, r.body), <<>>)

\* what the upstream can answer to a call
Responses(c) ==
    {[ok |-> FALSE, body |-> "error"], [ok |-> TRUE, body |-> "full"]}
    \cup (IF c \in {"assets", "ledgers"} THEN {[ok |-> TRUE, body |-> "empty"]} ELSE {})
    \cup (IF c = "simulateTransaction" THEN {[ok |-> TRUE, body |-> "simError"]} ELSE {})

(***************************************************************************)
(* Process-wide licensing notice                                           *)
(***************************************************************************)
NodeTypes == {"stellar", "stellarTrigger"}

\* variant: one flag for the package, shared by the two node types
logLicensingNotice_shared(node) ==
    /\ licensingLogged' = [n \in NodeTypes |-> TRUE]
    /\ warnings' = IF \E n \in NodeTypes : licensingLogged[n] THEN warnings
                   ELSE [warnings EXCEPT ![node] = @ + 1]

\* if (!globalAny[LICENSING_NOTICE_LOGGED]) { console.warn(...); flag = true }
logLicensingNotice(node) ==
    /\ licensingLogged' = [licensingLogged EXCEPT ![node] = TRUE]
    /\ warnings' = IF licensingLogged[node] THEN warnings
                   ELSE [warnings EXCEPT ![node] = @ + 1]

(***************************************************************************)
(* Stellar.execute                                                         *)
(***************************************************************************)
ExecIdle ==
    /\ pc = "idle" /\ continueOnFail = FALSE /\ nItems = 0 /\ i = 0
    /\ selector = NoSelector /\ credentials = NoCredentials
    /\ returnData = <<>> /\ network = NoValue /\ horizonUrl = NoValue
    /\ networkPassphrase = NoValue /\ keypair = NoValue /\ sorobanRpcUrl = NoValue
    /\ cur = NoItem /\ pending = "none" /\ thrown = <<>> /\ returned = <<>>
    /\ trace = <<>> /\ responses = <<>>
    /\ sorobanServer = NoValue /\ request = <<>>

TrigIdle ==
    /\ tpc = "idle" /\ tCredentials = NoCredentials
    /\ event = NoValue /\ accountId = NoValue /\ cursor = NoValue
    /\ closeFunction = NoHandle /\ subs = <<>> /\ delivered = <<>>
    /\ emitted = <<>> /\ errorsLogged = 0 /\ teardowns = 0 /\ tThrown = <<>>

\* variant: a secret key that does not parse leaves the run without a keypair
Setup_deferred(cred) ==
    LET h == getHorizonUrl(cred.network, cred.customHorizonUrl)
        p == getNetworkPassphrase(cred.network, cred.customNetworkPassphrase)
        k == KeypairFromSecret(cred.secretKey)
    IN  IF h.threw THEN h
        ELSE IF p.threw THEN p
        ELSE IF NewServer(h.value).threw THEN NewServer(h.value)
        ELSE IF Falsy(cred.secretKey) \/ k.threw
        THEN Ok([horizonUrl |-> h.value, networkPassphrase |-> p.value, keypair |-> NoValue])
        ELSE Ok([horizonUrl |-> h.value, networkPassphrase |-> p.value, keypair |-> k.value])

\* lines 513-527: everything execute derives from the credentials before the loop
Setup(cred) ==
    LET h == getHorizonUrl(cred.network, cred.customHorizonUrl)
        p == getNetworkPassphrase(cred.network, cred.customNetworkPassphrase)
        k == KeypairFromSecret(cred.secretKey)
    IN  IF h.threw THEN h
        ELSE IF p.threw THEN p
        ELSE IF NewServer(h.value).threw THEN NewServer(h.value)
        ELSE IF Falsy(cred.secretKey)
        THEN Ok([horizonUrl |-> h.value, networkPassphrase |-> p.value, keypair |-> NoValue])
        ELSE IF k.threw THEN k
        ELSE Ok([horizonUrl |-> h.value, networkPassphrase |-> p.value, keypair |-> k.value])

\* variant: a result variable shared by the iterations keeps the error of the
\* item before
PushResult_leaky(rd, json) ==
    IF rd # <<>> /\ DOMAIN rd[Len(rd)].json = {"error"}
    THEN Append(rd, rd[Len(rd)])
    ELSE Append(rd, [json |-> json])

\* returnData.push({ json: result })
PushResult(rd, json) == Append(rd, [json |-> json])

\* variant: the catch block continues without recording the error
PushError_skip(rd, msg) == rd

\* returnData.push({ json: { error: errorMessage } })
PushError(rd, msg) == Append(rd, [json |-> [error |-> msg]])

\* credentials a run of the given resource is drawn with: sorobanRpcUrl is read
\* in the soroban branch only
ExecuteCredentials(resource) ==
    {c \in Credentials : resource # "soroban" => c.sorobanRpcUrl = ""}

\* the host calls execute: licensing notice, input items, credentials, setup;
\* with no items the loop is skipped and [returnData] is returned
ExecuteStart ==
    /\ pc = "idle" /\ tpc = "idle"
    /\ \E sel \in Selectors, n \in 0..MaxItems, cof \in BOOLEAN :
       \E cred \in ExecuteCredentials(sel.resource) :
         LET s == Setup(cred) IN
         /\ logLicensingNotice("stellar")
         /\ nItems' = n
         /\ selector' = sel
         /\ credentials' = cred
         /\ continueOnFail' = cof
         /\ returnData' = <<>>
         /\ cur' = NoItem /\ pending' = "none" /\ trace' = <<>> /\ responses' = <<>>
         /\ sorobanServer' = NoValue /\ request' = <<>>
         /\ IF s.threw
            THEN /\ pc' = "rejected" /\ thrown' = s.value /\ returned' = <<>>
                 /\ i' = 0 /\ network' = NoValue /\ horizonUrl' = NoValue
                 /\ networkPassphrase' = NoValue /\ keypair' = NoValue
                 /\ sorobanRpcUrl' = NoValue
            ELSE /\ network' = cred.network
                 /\ horizonUrl' = s.value.horizonUrl
                 /\ networkPassphrase' = s.value.networkPassphrase
                 /\ keypair' = s.value.keypair
                 /\ sorobanRpcUrl' = cred.sorobanRpcUrl
                 /\ i' = 1 /\ thrown' = <<>>
                 /\ IF n = 0 THEN pc' = "done" /\ returned' = << <<>> >>
                    ELSE pc' = "loop" /\ returned' = <<>>
    /\ UNCHANGED trigVars
    /\ UNCHANGED resolveVars

\* variant: the loop moves on while the item's result is still to be appended
Advance_overlapping(rd) ==
    /\ returnData' = returnData
    /\ i' = i + 1
    /\ pending' = "none"
    /\ IF i + 1 > nItems THEN pc' = "done" /\ returned' = <<returnData>>
       ELSE pc' = "loop" /\ UNCHANGED returned

\* the item's result was pushed: i++, then the next iteration or return [returnData]
Advance(rd) ==
    /\ returnData' = rd
    /\ i' = i + 1
    /\ pending' = "none"
    /\ IF i + 1 > nItems THEN pc' = "done" /\ returned' = <<rd>>
       ELSE pc' = "loop" /\ UNCHANGED returned

\* variant: the catch block never rethrows
Settle_tolerant(o) ==
    CASE o.t = "await" ->
            /\ pc' = "await" /\ pending' = o.call /\ thrown' = <<>>
            /\ UNCHANGED <<i, returnData, returned>>
      [] o.t = "result" -> thrown' = <<>> /\ Advance(PushResult(returnData, o.json))
      [] o.t = "throw" -> thrown' = o.msg /\ Advance(PushError(returnData, o.msg))

\* lines 1002-1010: push the result, or catch the error
Settle(o) ==
    CASE o.t = "await" ->
            /\ pc' = "await" /\ pending' = o.call /\ thrown' = <<>>
            /\ UNCHANGED <<i, returnData, returned>>
      [] o.t = "result" -> thrown' = <<>> /\ Advance(PushResult(returnData, o.json))
      [] o.t = "throw" ->
            /\ thrown' = o.msg
            /\ IF continueOnFail THEN Advance(PushError(returnData, o.msg))
               ELSE /\ pc' = "rejected" /\ pending' = "none"
                    /\ UNCHANGED <<i, returnData, returned>>

\* variant: every operation is refused when no signing key is configured
ItemBegin_keyed ==
    /\ pc = "loop"
    /\ \E item \in ItemsOf(selector.resource, selector.operation) :
         LET o == IF keypair = NoValue
                  THEN Thrown(<<"Secret key required">>, Reads(2))
                  ELSE Begin(item)
         IN
         /\ cur' = item
         /\ trace' = o.ev
         /\ responses' = <<>>
         /\ sorobanServer' = SorobanServer(item)
         /\ request' = Requested(o, item, <<>>)
         /\ Settle(o)
    /\ UNCHANGED <<continueOnFail, nItems, selector, credentials, network, horizonUrl,
                   networkPassphrase, keypair, sorobanRpcUrl>>
    /\ UNCHANGED <<licensingLogged, warnings>>
    /\ UNCHANGED trigVars
    /\ UNCHANGED resolveVars

\* iteration i starts: the item's parameters are read and the item runs up to
\* its first await, its result or its error
ItemBegin ==
    /\ pc = "loop"
    /\ \E item \in ItemsOf(selector.resource, selector.operation) :
         /\ cur' = item
         /\ trace' = Begin(item).ev
         /\ responses' = <<>>
         /\ sorobanServer' = SorobanServer(item)
         /\ request' = Requested(Begin(item), item, <<>>)
         /\ Settle(Begin(item))
    /\ UNCHANGED <<continueOnFail, nItems, selector, credentials, network, horizonUrl,
                   networkPassphrase, keypair, sorobanRpcUrl>>
    /\ UNCHANGED <<licensingLogged, warnings>>
    /\ UNCHANGED trigVars
    /\ UNCHANGED resolveVars

\* variant: an item that fails after a network call drops the signing keypair
NetworkReturn_forgetful ==
    /\ pc = "await"
    /\ \E r \in Responses(pending) :
         /\ trace' = trace \o Continue(cur, pending, r).ev
         /\ responses' = Append(responses, r)
         /\ request' = Requested(Continue(cur, pending, r), cur, request)
         /\ keypair' = IF Continue(cur, pending, r).t = "throw" THEN NoValue ELSE keypair
         /\ Settle(Continue(cur, pending, r))
    /\ UNCHANGED <<cur, continueOnFail, nItems, selector, credentials, network,
                   horizonUrl, networkPassphrase, sorobanRpcUrl, sorobanServer>>
    /\ UNCHANGED <<licensingLogged, warnings>>
    /\ UNCHANGED trigVars
    /\ UNCHANGED resolveVars

\* the awaited network call resolves or rejects and the item runs on
NetworkReturn ==
    /\ pc = "await"
    /\ \E r \in Responses(pending) :
         /\ trace' = trace \o Continue(cur, pending, r).ev
         /\ responses' = Append(responses, r)
         /\ request' = Requested(Continue(cur, pending, r), cur, request)
         /\ Settle(Continue(cur, pending, r))
    /\ UNCHANGED <<cur, continueOnFail, nItems, selector, credentials, network,
                   horizonUrl, networkPassphrase, keypair, sorobanRpcUrl, sorobanServer>>
    /\ UNCHANGED <<licensingLogged, warnings>>
    /\ UNCHANGED trigVars
    /\ UNCHANGED resolveVars

\* the host has taken the outcome of execute; the invocation's locals are gone
ExecuteEnd ==
    /\ pc \in {"done", "rejected"}
    /\ pc' = "idle" /\ continueOnFail' = FALSE /\ nItems' = 0 /\ i' = 0
    /\ selector' = NoSelector /\ credentials' = NoCredentials
    /\ returnData' = <<>> /\ network' = NoValue /\ horizonUrl' = NoValue
    /\ networkPassphrase' = NoValue /\ keypair' = NoValue /\ sorobanRpcUrl' = NoValue
    /\ cur' = NoItem /\ pending' = "none" /\ thrown' = <<>> /\ returned' = <<>>
    /\ trace' = <<>> /\ responses' = <<>>
    /\ sorobanServer' = NoValue /\ request' = <<>>
    /\ UNCHANGED <<licensingLogged, warnings>>
    /\ UNCHANGED trigVars
    /\ UNCHANGED resolveVars

(***************************************************************************)
(* StellarTrigger.trigger                                                  *)
(***************************************************************************)
Events == {"transactions", "operations", "payments", "effects", "ledgers", "trades"}
Records == {"record1", "record2"}

\* variant: the default case falls back to the payments stream
StreamBuilder_default(ev, acc) ==
    IF ev \in {"transactions", "operations", "payments", "effects"}
    THEN Ok([endpoint |-> ev, forAccount |-> IF Falsy(acc) THEN NoValue ELSE acc])
    ELSE IF ev \in {"ledgers", "trades"}
    THEN Ok([endpoint |-> ev, forAccount |-> NoValue])
    ELSE Ok([endpoint |-> "payments", forAccount |-> NoValue])

\* variant: the account filter is never applied
StreamBuilder_global(ev, acc) ==
    IF ev \in {"transactions", "operations", "payments", "effects", "ledgers", "trades"}
    THEN Ok([endpoint |-> ev, forAccount |-> NoValue])
    ELSE Throw(<<"Unknown event type: ", ev>>)

\* the switch of startStreaming: the call builder the stream is opened on
StreamBuilder(ev, acc) ==
    IF ev \in {"transactions", "operations", "payments", "effects"}
    THEN Ok([endpoint |-> ev, forAccount |-> IF Falsy(acc) THEN NoValue ELSE acc])
    ELSE IF ev \in {"ledgers", "trades"}
    THEN Ok([endpoint |-> ev, forAccount |-> NoValue])
    ELSE Throw(<<"Unknown event type: ", ev>>)

\* streamBuilder.cursor(cursor).stream({onmessage, onerror}): the subscription
\* opened on the server; the returned close handle is its index in subs
Stream(builder, cu) ==
    [endpoint |-> builder.endpoint, forAccount |-> builder.forAccount,
     cursor |-> cu, open |-> TRUE, closeCalls |-> 0]

\* credentials an activation is drawn with: trigger reads network and
\* customHorizonUrl only
TriggerCredentials ==
    {c \in Credentials : c.secretKey = "" /\ c.sorobanRpcUrl \notin InsecureUrls}

\* the host activates the trigger
TriggerStart ==
    /\ pc = "idle" /\ tpc = "idle"
    /\ \E cred \in TriggerCredentials, ev \in Events \cup {"bogus"},
          acc \in {"", "GACCOUNT"}, cu \in {"now", "12345"} :
         LET h == getHorizonUrl(cred.network, cred.customHorizonUrl)
             b == StreamBuilder(ev, acc)
             failure == IF h.threw THEN h
                        ELSE IF NewServer(h.value).threw THEN NewServer(h.value)
                        ELSE b
         IN
         /\ logLicensingNotice("stellarTrigger")
         /\ tCredentials' = cred
         /\ event' = IF h.threw \/ NewServer(h.value).threw THEN NoValue ELSE ev
         /\ accountId' = IF h.threw \/ NewServer(h.value).threw THEN NoValue ELSE acc
         /\ cursor' = IF h.threw \/ NewServer(h.value).threw THEN NoValue ELSE cu
         /\ delivered' = <<>> /\ emitted' = <<>> /\ errorsLogged' = 0 /\ teardowns' = 0
         /\ IF failure.threw
            THEN /\ tpc' = "failed" /\ tThrown' = failure.value
                 /\ closeFunction' = NoHandle /\ subs' = <<>>
            ELSE /\ subs' = <<Stream(b.value, cu)>>
                 /\ closeFunction' = 1
                 /\ tpc' = "active" /\ tThrown' = <<>>
    /\ UNCHANGED execVars
    /\ UNCHANGED resolveVars

\* variant: onmessage drops what arrives once the stream has been closed
OnMessage_guarded ==
    /\ tpc = "active"
    /\ Len(delivered) < MaxRecords
    /\ \E record \in Records :
         /\ delivered' = Append(delivered, [record |-> record, open |-> subs[1].open,
                                            afterError |-> errorsLogged > 0])
         /\ emitted' = IF subs[1].open
                       THEN Append(emitted, << <<[json |-> record]>> >>)
                       ELSE emitted
    /\ UNCHANGED <<tpc, tCredentials, event, accountId, cursor, closeFunction, subs,
                   errorsLogged, teardowns, tThrown>>
    /\ UNCHANGED <<licensingLogged, warnings>>
    /\ UNCHANGED execVars
    /\ UNCHANGED resolveVars

\* variant: onmessage holds a record back until the next one arrives
OnMessage_buffered ==
    /\ tpc = "active"
    /\ Len(delivered) < MaxRecords
    /\ \E record \in Records :
         /\ delivered' = Append(delivered, [record |-> record, open |-> subs[1].open,
                                            afterError |-> errorsLogged > 0])
         /\ emitted' = IF delivered = <<>> THEN emitted
                       ELSE Append(emitted,
                                   << <<[json |-> delivered[Len(delivered)].record]>> >>)
    /\ UNCHANGED <<tpc, tCredentials, event, accountId, cursor, closeFunction, subs,
                   errorsLogged, teardowns, tThrown>>
    /\ UNCHANGED <<licensingLogged, warnings>>
    /\ UNCHANGED execVars
    /\ UNCHANGED resolveVars

\* onmessage: this.emit([this.helpers.returnJsonArray([record])])
OnMessage ==
    /\ tpc = "active"
    /\ Len(delivered) < MaxRecords
    /\ \E record \in Records :
         /\ delivered' = Append(delivered, [record |-> record, open |-> subs[1].open,
                                            afterError |-> errorsLogged > 0])
         /\ emitted' = Append(emitted, << <<[json |-> record]>> >>)
    /\ UNCHANGED <<tpc, tCredentials, event, accountId, cursor, closeFunction, subs,
                   errorsLogged, teardowns, tThrown>>
    /\ UNCHANGED <<licensingLogged, warnings>>
    /\ UNCHANGED execVars
    /\ UNCHANGED resolveVars

\* variant: onerror reconnects by opening a second stream
OnError_reconnect ==
    /\ tpc = "active"
    /\ errorsLogged < MaxErrors
    /\ errorsLogged' = errorsLogged + 1
    /\ subs' = Append(subs, [subs[1] EXCEPT !.open = TRUE, !.closeCalls = 0])
    /\ closeFunction' = Len(subs) + 1
    /\ UNCHANGED <<tpc, tCredentials, event, accountId, cursor, delivered, emitted,
                   teardowns, tThrown>>
    /\ UNCHANGED <<licensingLogged, warnings>>
    /\ UNCHANGED execVars
    /\ UNCHANGED resolveVars

\* variant: onerror gives up and closes the stream
OnError_close ==
    /\ tpc = "active"
    /\ errorsLogged < MaxErrors
    /\ errorsLogged' = errorsLogged + 1
    /\ subs' = [subs EXCEPT ![closeFunction].open = FALSE,
                            ![closeFunction].closeCalls = @ + 1]
    /\ UNCHANGED <<tpc, tCredentials, event, accountId, cursor, closeFunction, delivered,
                   emitted, teardowns, tThrown>>
    /\ UNCHANGED <<licensingLogged, warnings>>
    /\ UNCHANGED execVars
    /\ UNCHANGED resolveVars

\* onerror: console.error('Stellar stream error:', error)
OnError ==
    /\ tpc = "active"
    /\ errorsLogged < MaxErrors
    /\ errorsLogged' = errorsLogged + 1
    /\ UNCHANGED <<tpc, tCredentials, event, accountId, cursor, closeFunction, subs,
                   delivered, emitted, teardowns, tThrown>>
    /\ UNCHANGED <<licensingLogged, warnings>>
    /\ UNCHANGED execVars
    /\ UNCHANGED resolveVars

\* variant: closeCallback clears the handle once it has invoked it
CloseCallback_once ==
    /\ tpc = "active"
    /\ teardowns < MaxTeardowns
    /\ subs' = IF closeFunction # NoHandle
               THEN [subs EXCEPT ![closeFunction].open = FALSE,
                                 ![closeFunction].closeCalls = @ + 1]
               ELSE subs
    /\ closeFunction' = NoHandle
    /\ teardowns' = teardowns + 1
    /\ UNCHANGED <<tpc, tCredentials, event, accountId, cursor, delivered,
                   emitted, errorsLogged, tThrown>>
    /\ UNCHANGED <<licensingLogged, warnings>>
    /\ UNCHANGED execVars
    /\ UNCHANGED resolveVars

\* variant: closeCallback forgets to invoke the stored handle
CloseCallback_noop ==
    /\ tpc = "active"
    /\ teardowns < MaxTeardowns
    /\ teardowns' = teardowns + 1
    /\ UNCHANGED <<tpc, tCredentials, event, accountId, cursor, closeFunction, subs,
                   delivered, emitted, errorsLogged, tThrown>>
    /\ UNCHANGED <<licensingLogged, warnings>>
    /\ UNCHANGED execVars
    /\ UNCHANGED resolveVars

\* closeCallback: if (closeFunction) closeFunction()
CloseCallback ==
    /\ tpc = "active"
    /\ teardowns < MaxTeardowns
    /\ subs' = IF closeFunction # NoHandle
               THEN [subs EXCEPT ![closeFunction].open = FALSE,
                                 ![closeFunction].closeCalls = @ + 1]
               ELSE subs
    /\ teardowns' = teardowns + 1
    /\ UNCHANGED <<tpc, tCredentials, event, accountId, cursor, closeFunction, delivered,
                   emitted, errorsLogged, tThrown>>
    /\ UNCHANGED <<licensingLogged, warnings>>
    /\ UNCHANGED execVars
    /\ UNCHANGED resolveVars

\* the host has dropped a failed or torn-down activation; its locals are gone
TriggerEnd ==
    /\ tpc = "failed" \/ (tpc = "active" /\ teardowns > 0)
    /\ tpc' = "idle" /\ tCredentials' = NoCredentials
    /\ event' = NoValue /\ accountId' = NoValue /\ cursor' = NoValue
    /\ closeFunction' = NoHandle /\ subs' = <<>> /\ delivered' = <<>>
    /\ emitted' = <<>> /\ errorsLogged' = 0 /\ teardowns' = 0 /\ tThrown' = <<>>
    /\ UNCHANGED <<licensingLogged, warnings>>
    /\ UNCHANGED execVars
    /\ UNCHANGED resolveVars

(***************************************************************************)
(* The resolvers applied to drawn arguments                                *)
(***************************************************************************)
NoCall == [fn |-> "none", network |-> NoValue, custom |-> NoValue]
NoOut == [threw |-> FALSE, value |-> NoValue]
Pending == [threw |-> FALSE, value |-> "<pending>"]

Resolvers == {"getHorizonUrl", "getNetworkPassphrase", "getSorobanRpcUrl"}

CustomValues == {NoValue, "", "https://custom-horizon.example.com",
                 "https://custom-soroban.example.com", "Custom Network ; Test"}

Apply(fn, net, custom) ==
    CASE fn = "getHorizonUrl" -> getHorizonUrl(net, custom)
      [] fn = "getNetworkPassphrase" -> getNetworkPassphrase(net, custom)
      [] fn = "getSorobanRpcUrl" -> getSorobanRpcUrl(net, custom)

Resolve ==
    /\ call # NoCall /\ out = Pending
    /\ out' = Apply(call.fn, call.network, call.custom)
    /\ UNCHANGED call
    /\ UNCHANGED <<licensingLogged, warnings>>
    /\ UNCHANGED execVars
    /\ UNCHANGED trigVars

(***************************************************************************)
(* Specifications                                                          *)
(***************************************************************************)
Init ==
    /\ licensingLogged = [n \in NodeTypes |-> FALSE]
    /\ warnings = [n \in NodeTypes |-> 0]
    /\ ExecIdle
    /\ TrigIdle
    /\ call = NoCall /\ out = NoOut

NextExecute ==
    \/ ExecuteStart
    \/ ItemBegin
    \/ NetworkReturn
    \/ ExecuteEnd

NextTrigger ==
    \/ TriggerStart
    \/ OnMessage
    \/ OnError
    \/ CloseCallback
    \/ TriggerEnd

Next ==
    \/ NextExecute
    \/ NextTrigger

\* both nodes in one process
Spec == Init /\ [][Next]_vars

\* the operation dispatcher alone
SpecExecute == Init /\ [][NextExecute]_vars

\* the trigger alone
SpecTrigger == Init /\ [][NextTrigger]_vars

InitResolve ==
    /\ licensingLogged = [n \in NodeTypes |-> FALSE]
    /\ warnings = [n \in NodeTypes |-> 0]
    /\ ExecIdle
    /\ TrigIdle
    /\ call \in [fn : Resolvers, network : NetworkType, custom : CustomValues]
    /\ out = Pending

NextResolve == Resolve

SpecResolve == InitResolve /\ [][NextResolve]_vars

TypeOK ==
    /\ pc \in {"idle", "loop", "await", "done", "rejected"}
    /\ tpc \in {"idle", "active", "failed"}
    /\ Len(returnData) <= nItems
    /\ pending \in NetworkCalls \cup {"none"}

(***************************************************************************)
(* Properties                                                              *)
(***************************************************************************)
IsErrorResult(r) == DOMAIN r.json = {"error"}

\* the item whose request an upstream payload answers; 0 for a local result
Origin(json) ==
    IF "request" \in DOMAIN json THEN json.request
    ELSE IF "account" \in DOMAIN json THEN json.account.request
    ELSE IF "offers" \in DOMAIN json THEN json.offers.request
    ELSE IF "trades" \in DOMAIN json THEN json.trades.request
    ELSE 0

NoNetworkCall ==
    /\ \A k \in 1..Len(trace) : trace[k].ev \notin NetworkCalls
    /\ pending = "none"
    /\ responses = <<>>

C1_State ==
    (continueOnFail /\ i >= 1) =>
        /\ pc # "rejected"
        /\ Len(returnData) = i - 1
        /\ \A k \in 1..Len(returnData) : Origin(returnData[k].json) \in {0, k}
        /\ (pc \in {"loop", "done"} /\ i > 1) =>
              IF thrown # <<>>
              THEN returnData[i - 1].json = [error |-> thrown]
              ELSE IsErrorResult(returnData[i - 1]) =>
                      returnData[i - 1].json.error = <<"Asset not found">>
        /\ pc = "done" => returned = <<returnData>> /\ Len(returnData) = nItems

C1_Frame ==
    pc \in {"loop", "await"} =>
        \A k \in 1..Len(returnData) :
            Len(returnData') >= k /\ returnData'[k] = returnData[k]

\* C1 as stated: with continueOnFail enabled every execute over N items ends
\* with exactly N results.
C1_Original ==
    (continueOnFail /\ pc \in {"done", "rejected"}) =>
        (pc = "done" /\ returned = <<returnData>> /\ Len(returnData) = nItems)

\* C1 amended: with continueOnFail enabled, once the setup before the item loop
\* has completed, execute never rejects and resolves with exactly N results in
\* input order; result k answers item k, is {error: message} when item k threw
\* and the item's payload otherwise, and is never changed by a later item.
C1_Amended == [][C1_State' /\ C1_Frame]_vars

C1_Witness ==
    /\ continueOnFail /\ pc = "done" /\ nItems = 2
    /\ returnData[1].json = [error |-> UPSTREAM_ERROR]
    /\ thrown = <<>>
    /\ Origin(returnData[2].json) = 2

KeyOperations ==
    {"createAccount", "mergeAccount", "setData", "setOptions", "sendPayment",
     "pathPayment", "createClaimableBalance", "claimBalance", "changeTrust",
     "issueAsset", "createSellOffer", "createBuyOffer", "cancelOffer", "listOffers",
     "signXdr", "invokeContract", "simulateTransaction"}

SecretKeyMessages ==
    {<<"Secret key required">>,
     <<"Secret key required for creating accounts">>,
     <<"Secret key required for merging accounts">>,
     <<"Secret key required for setting data">>,
     <<"Secret key required for setting options">>,
     <<"Secret key required for payments">>,
     <<"Secret key required for path payments">>,
     <<"Secret key required for trustlines">>,
     <<"Secret key required to list your offers">>,
     <<"Secret key required for signing">>,
     <<"Secret key required for contract operations">>}

\* an item of a key-requiring operation has been dispatched with no key configured
KeylessDispatch ==
    /\ cur # NoItem
    /\ cur.operation \in KeyOperations \cap OperationsOf(cur.resource)
    /\ Falsy(credentials.secretKey)

\* C2 as stated: a key-requiring operation dispatched without a secret key fails
\* with 'Secret key required ...' before any network call.
C2_Original ==
    KeylessDispatch => (thrown \in SecretKeyMessages /\ NoNetworkCall)

\* C2 amended: a key-requiring operation dispatched without a secret key fails
\* before any network call; the error is 'Secret key required ...', except for
\* simulateTransaction and invokeContract when the Soroban RPC URL cannot be
\* resolved or the RPC client refuses it, where it is that configuration error.
C2_Amended ==
    KeylessDispatch =>
        /\ NoNetworkCall
        /\ IF cur.resource = "soroban" /\ Falsy(credentials.sorobanRpcUrl)
              /\ credentials.network = "custom"
           THEN thrown = <<"Custom Soroban RPC URL required for custom network">>
           ELSE IF cur.resource = "soroban" /\ credentials.sorobanRpcUrl \in InsecureUrls
           THEN thrown = <<"Cannot connect to insecure server">>
           ELSE thrown \in SecretKeyMessages

C2_Witness ==
    /\ KeylessDispatch
    /\ cur.operation = "sendPayment"
    /\ thrown = <<"Secret key required for payments">>
    /\ trace = Reads(2)

C3_Step ==
    /\ (i' >= 1 /\ ~continueOnFail' /\ thrown' # <<>>) =>
          /\ pc' = "rejected"
          /\ returned' = <<>>
          /\ i' = Len(returnData') + 1
          /\ \A k \in 1..Len(trace') : trace'[k].item = i'
    /\ pc = "rejected" => pc' = "idle"

\* C3: with continueOnFail disabled the first failing item makes execute reject
\* with that error; nothing is returned and nothing more is read or called for
\* any later item.
C3_Aborts == [][C3_Step]_vars

C3_Witness ==
    /\ pc = "rejected" /\ ~continueOnFail
    /\ nItems = 2 /\ i = 1
    /\ thrown = UPSTREAM_ERROR
    /\ returned = <<>>

C4_Step ==
    /\ (tpc = "active" /\ teardowns' = teardowns + 1) =>
          /\ tpc' = "active" /\ tThrown' = <<>>
          /\ Len(subs') = 1
          /\ subs'[1].closeCalls = subs[1].closeCalls + 1
    /\ (tpc' = "active" /\ teardowns' > 0) =>
          \A k \in 1..Len(subs') : ~subs'[k].open

\* C4: every call of the teardown callback after a successful activation
\* invokes the close handle of the stream opened at activation, does not
\* throw, and leaves no subscription open, also when no message has arrived.
C4_Teardown == [][C4_Step]_vars

C4_Witness ==
    /\ tpc = "active" /\ teardowns = 1
    /\ delivered = <<>> /\ errorsLogged = 0
    /\ ~subs[1].open /\ subs[1].closeCalls = 1

FixedValue(fn, net) ==
    CASE fn = "getHorizonUrl" -> HORIZON_URLS[net]
      [] fn = "getNetworkPassphrase" -> NETWORK_PASSPHRASES[net]
      [] fn = "getSorobanRpcUrl" -> SOROBAN_RPC_URLS[net]

\* C5: on public, testnet and futurenet each resolver returns the network's
\* constant, whatever custom value it is given.
C5_Fixed ==
    (call # NoCall /\ out # Pending /\ call.network # "custom") =>
        /\ out = Ok(FixedValue(call.fn, call.network))
        /\ (call.fn = "getHorizonUrl" /\ call.network = "testnet") =>
              out.value = "https://horizon-testnet.stellar.org"
        /\ (call.fn = "getNetworkPassphrase" /\ call.network = "testnet") =>
              out.value = "Test SDF Network ; September 2015"

C5_Witness ==
    /\ call.fn = "getHorizonUrl" /\ call.network = "testnet"
    /\ call.custom = "https://custom-horizon.example.com"
    /\ out = Ok("https://horizon-testnet.stellar.org")

RequiredMessage(fn) ==
    CASE fn = "getHorizonUrl" -> <<"Custom Horizon URL required for custom network">>
      [] fn = "getNetworkPassphrase" ->
            <<"Custom network passphrase required for custom network">>
      [] fn = "getSorobanRpcUrl" -> <<"Custom Soroban RPC URL required for custom network">>

\* C6: on network custom each resolver throws its configuration error when the
\* override is missing or empty and returns the override unchanged otherwise.
C6_Custom ==
    (call # NoCall /\ out # Pending /\ call.network = "custom") =>
        IF call.custom \in {NoValue, ""}
        THEN out = Throw(RequiredMessage(call.fn))
        ELSE out = Ok(call.custom)

C6_Witness ==
    /\ call.fn = "getHorizonUrl" /\ call.network = "custom" /\ call.custom = ""
    /\ out = Throw(<<"Custom Horizon URL required for custom network">>)

AllThree(c) ==
    /\ ~Falsy(c.customHorizonUrl)
    /\ ~Falsy(c.customNetworkPassphrase)
    /\ ~Falsy(c.sorobanRpcUrl)

ConfigurationErrors == {RequiredMessage(fn) : fn \in Resolvers}

ResolutionErrors == ConfigurationErrors \cup {<<"Cannot connect to insecure server">>}

\* C7 as stated: on network custom an execute run does not get past its setup
\* and a trigger activation fails in network resolution unless all three
\* overrides are supplied.
C7_Original ==
    /\ (credentials.network = "custom" /\ ~AllThree(credentials)) =>
          pc \notin {"loop", "await", "done"}
    /\ (tCredentials.network = "custom" /\ ~AllThree(tCredentials) /\ tpc # "idle") =>
          (tpc = "failed" /\ tThrown \in ResolutionErrors)

\* C7 amended: on network custom execute fails in its setup unless the Horizon
\* URL and the passphrase are supplied, and a trigger activation fails unless
\* the Horizon URL is supplied; the Soroban RPC URL is required only by items
\* of resource soroban, which fail one by one, and the trigger requires neither
\* the passphrase nor the Soroban RPC URL.
C7_Amended ==
    /\ (credentials.network = "custom" /\ pc # "idle") =>
          /\ Falsy(credentials.customHorizonUrl) =>
                (pc = "rejected" /\ i = 0 /\ thrown = RequiredMessage("getHorizonUrl"))
          /\ (~Falsy(credentials.customHorizonUrl)
              /\ Falsy(credentials.customNetworkPassphrase)) =>
                (pc = "rejected" /\ i = 0 /\ thrown = RequiredMessage("getNetworkPassphrase"))
          /\ (cur # NoItem /\ cur.resource = "soroban"
              /\ Falsy(credentials.sorobanRpcUrl)) =>
                thrown = RequiredMessage("getSorobanRpcUrl")
          /\ (cur = NoItem \/ cur.resource # "soroban") =>
                thrown # RequiredMessage("getSorobanRpcUrl")
    /\ (tCredentials.network = "custom" /\ tpc # "idle") =>
          /\ Falsy(tCredentials.customHorizonUrl) =>
                (tpc = "failed" /\ tThrown = RequiredMessage("getHorizonUrl"))
          /\ (~Falsy(tCredentials.customHorizonUrl)
              /\ tCredentials.customHorizonUrl \notin InsecureUrls
              /\ event \in Events) => tpc = "active"
          /\ tThrown \notin {RequiredMessage("getNetworkPassphrase"),
                              RequiredMessage("getSorobanRpcUrl")}

C7_Witness ==
    /\ tpc = "active" /\ tCredentials.network = "custom"
    /\ tCredentials.customNetworkPassphrase = "" /\ tCredentials.sorobanRpcUrl = ""
    /\ subs[1].open

IsCredit(code, issuer) == code # "XLM" /\ issuer \notin {NoValue, ""}

\* the error an item meets before its first network call, <<>> if none
ExpectedPreError(cred, item) ==
    LET op == item.operation
        res == item.resource
        parses ==
            \/ op \in {"createClaimableBalance", "changeTrust", "issueAsset", "signXdr",
                       "submitXdr", "simulateTransaction", "invokeContract"}
            \/ op \in {"sendPayment", "pathPayment", "getTrades"}
               /\ IsCredit(item.assetCode, item.assetIssuer)
            \/ op \in {"getOrderbook", "createSellOffer", "createBuyOffer"}
               /\ (IsCredit(item.assetCode, item.assetIssuer)
                   \/ IsCredit(item.buyingCode, item.buyingIssuer))
    IN
    IF res \notin Resources THEN <<"Unknown resource: ", res>>
    ELSE IF res = "soroban" /\ cred.sorobanRpcUrl = "" /\ cred.network = "custom"
    THEN <<"Custom Soroban RPC URL required for custom network">>
    ELSE IF res = "soroban" /\ cred.sorobanRpcUrl \in InsecureUrls
    THEN <<"Cannot connect to insecure server">>
    ELSE IF op \notin OperationsOf(res) THEN UnknownOperation(res, op)
    ELSE IF op \in KeyOperations /\ cred.secretKey = "" THEN SecretKeyMessage(op)
    ELSE IF op = "fundTestnet" /\ cred.network \notin {"testnet", "futurenet"}
    THEN <<"Friendbot only available on testnet and futurenet">>
    ELSE IF op = "changeTrust" /\ item.assetIssuer = ""
    THEN <<"Asset issuer required for non-native assets">>
    ELSE IF item.sdk = "rejectsParse" /\ parses THEN SDK_ERROR
    ELSE <<>>

\* the result of item j as a function of the credentials, the item's own
\* parameters and the answers rs to the item's own network calls
ExpectedResult(cred, item, j, rs) ==
    LET op == item.operation
        pre == ExpectedPreError(cred, item)
        last == rs[Len(rs)]
        P(c) == [from |-> c, request |-> j, body |-> last.body]
    IN
    IF pre # <<>> THEN [error |-> pre]
    ELSE IF op = "generateKeypair" THEN [publicKey |-> "GRANDOM", secretKey |-> "SRANDOM"]
    ELSE IF op = "signXdr" THEN [signedXdr |-> "signed", signatures |-> 1]
    ELSE IF op = "getAssetInfo" /\ (item.assetCode = "XLM" \/ item.assetIssuer = "")
    THEN [type |-> "native", code |-> "XLM", issuer |-> "null"]
    ELSE IF ~last.ok THEN [error |-> UPSTREAM_ERROR]
    ELSE IF op \in BuildsTransaction /\ item.sdk = "rejectsBuild" THEN [error |-> SDK_ERROR]
    ELSE IF op = "invokeContract" /\ Len(rs) = 2
    THEN [error |-> <<"Simulation failed: ", "simError">>]
    ELSE CASE op = "getInfo" -> [account |-> P("loadAccount")]
           [] op = "fundTestnet" -> P("friendbot")
           [] op = "getAssetInfo" ->
                 IF last.body = "empty" THEN [error |-> <<"Asset not found">>]
                 ELSE P("assets")
           [] op = "getOrderbook" -> P("orderbook")
           [] op = "listOffers" -> [offers |-> P("offers")]
           [] op = "getTrades" -> [trades |-> P("trades")]
           [] op = "getTransaction" -> P("transaction")
           [] op = "getLatest" -> IF last.body = "empty" THEN NoJson ELSE P("ledgers")
           [] op = "getBySequence" -> P("ledger")
           [] op = "getFeeStats" -> P("feeStats")
           [] op = "getHealth" -> P("getHealth")
           [] op = "simulateTransaction" -> P("simulateTransaction")
           [] op = "invokeContract" -> P("sendTransaction")
           [] OTHER -> P("submitTransaction")

C8_State ==
    (continueOnFail /\ pc \in {"loop", "done"} /\ i > 1) =>
        returnData[i - 1].json = ExpectedResult(credentials, cur, i - 1, responses)

C8_Frame ==
    pc \in {"loop", "await"} =>
        /\ UNCHANGED <<credentials, selector, continueOnFail, nItems, network, horizonUrl,
                       networkPassphrase, keypair, sorobanRpcUrl>>
        /\ \A k \in 1..Len(returnData) :
              Len(returnData') >= k /\ returnData'[k] = returnData[k]

\* C8: with continueOnFail enabled the result recorded for item j is a function
\* of the credentials, of item j's parameters and of the answers to item j's
\* own calls, whether or not another item failed; processing an item changes
\* neither the configuration the items read nor a result already recorded.
C8_Isolated == [][C8_State' /\ C8_Frame]_vars

C8_Witness ==
    /\ continueOnFail /\ pc = "done" /\ nItems = 2
    /\ selector.operation = "getAssetInfo"
    /\ returnData[1].json = [error |-> UPSTREAM_ERROR]
    /\ cur.assetCode = "USD" /\ cur.assetIssuer = "GISSUER"
    /\ responses = <<[ok |-> TRUE, body |-> "full"]>>
    /\ returnData[2].json = [from |-> "assets", request |-> 2, body |-> "full"]

\* Idle -> Streaming -> Closed
Phase ==
    IF tpc # "active" THEN "Idle"
    ELSE IF \E k \in 1..Len(subs) : subs[k].open THEN "Streaming"
    ELSE "Closed"

PhaseRank(ph) == CASE ph = "Idle" -> 0 [] ph = "Streaming" -> 1 [] ph = "Closed" -> 2

C9_Step ==
    /\ (tpc = "idle" /\ tpc' = "active") =>
          (Len(subs') = 1 /\ subs'[1].open /\ closeFunction' = 1 /\ Phase' = "Streaming")
    /\ (tpc = "active" /\ tpc' = "active") =>
          /\ Len(subs') = 1
          /\ closeFunction' = closeFunction
          /\ PhaseRank(Phase') >= PhaseRank(Phase)
    /\ tpc' # "active" => subs' = <<>>

\* C9: an activation opens exactly one stream subscription, before trigger
\* returns; while the activation lasts no further subscription is opened and
\* its phase only moves forward along Idle -> Streaming -> Closed.
C9_OneSubscription == [][C9_Step]_vars

C9_Witness ==
    /\ tpc = "active" /\ Phase = "Closed"
    /\ errorsLogged > 0 /\ Len(delivered) > 0 /\ teardowns = 2
    /\ Len(subs) = 1

C10_Step ==
    /\ errorsLogged' > errorsLogged =>
          /\ subs' = subs /\ closeFunction' = closeFunction
          /\ emitted' = emitted /\ tpc' = tpc
    /\ (tpc' = "active" /\ Len(delivered') > Len(delivered)) =>
          emitted' = Append(emitted, << <<[json |-> delivered'[Len(delivered')].record]>> >>)

\* C10: an onerror callback only logs: it does not invoke the close handle,
\* emits nothing and opens no stream, and a record delivered after it is
\* emitted like any other.
C10_ErrorNotFatal == [][C10_Step]_vars

C10_Witness ==
    /\ tpc = "active" /\ errorsLogged = 2
    /\ Len(delivered) > 0
    /\ delivered[Len(delivered)].afterError /\ delivered[Len(delivered)].open
    /\ subs[1].open /\ subs[1].closeCalls = 0
    /\ emitted[Len(emitted)] = << <<[json |-> delivered[Len(delivered)].record]>> >>

\* this.helpers.returnJsonArray([record]) wrapped in the one-output list emit takes
EmitArguments(record) == << <<[json |-> record]>> >>

C11_State ==
    /\ Len(emitted) = Len(delivered)
    /\ \A k \in 1..Len(delivered) : emitted[k] = EmitArguments(delivered[k].record)

C11_Step ==
    /\ Len(delivered') > Len(delivered) =>
          /\ Len(delivered') = Len(delivered) + 1
          /\ emitted' = Append(emitted, EmitArguments(delivered'[Len(delivered')].record))
    /\ (Len(delivered') = Len(delivered) /\ tpc' = "active") => emitted' = emitted

\* C11: every record passed to onmessage is emitted in the same step, as one
\* emit of a one-element item list; the emitted sequence always equals the
\* delivered sequence, so nothing is buffered, reordered, dropped or duplicated,
\* and nothing but onmessage emits.
C11_EmitInOrder == [][C11_State' /\ C11_Step]_vars

C11_Witness ==
    /\ tpc = "active" /\ Len(delivered) = 2
    /\ delivered[1].record = "record2" /\ delivered[2].record = "record1"
    /\ emitted = <<EmitArguments("record2"), EmitArguments("record1")>>

\* an item whose resource or operation is not a known one has been dispatched
UnknownSelector ==
    /\ cur # NoItem
    /\ cur.resource \notin Resources \/ cur.operation \notin OperationsOf(cur.resource)

UnknownSelectorError ==
    IF cur.resource = "account" THEN <<"Unknown account operation: ", cur.operation>>
    ELSE IF cur.resource = "payment" THEN <<"Unknown payment operation: ", cur.operation>>
    ELSE IF cur.resource = "asset" THEN <<"Unknown asset operation: ", cur.operation>>
    ELSE IF cur.resource = "dex" THEN <<"Unknown DEX operation: ", cur.operation>>
    ELSE IF cur.resource = "transaction"
    THEN <<"Unknown transaction operation: ", cur.operation>>
    ELSE IF cur.resource = "ledger" THEN <<"Unknown ledger operation: ", cur.operation>>
    ELSE IF cur.resource = "soroban" THEN <<"Unknown soroban operation: ", cur.operation>>
    ELSE <<"Unknown resource: ", cur.resource>>

\* C12 as stated: an item with an unknown resource or operation fails with the
\* unknown-selector error and makes no network call.
C12_Original ==
    UnknownSelector => (thrown = UnknownSelectorError /\ NoNetworkCall)

\* C12 amended: an item with an unknown resource or operation fails after
\* reading only resource and operation and makes no network call; the error is
\* the unknown-selector error, except for resource soroban when the Soroban RPC
\* URL cannot be resolved or the RPC client refuses it, where it is that
\* configuration error, raised before the operation is looked at.
C12_Amended ==
    UnknownSelector =>
        /\ NoNetworkCall
        /\ pc # "await"
        /\ Len(trace) = 2
        /\ \A k \in 1..Len(trace) : trace[k].ev = "getNodeParameter"
        /\ IF cur.resource = "soroban" /\ Falsy(credentials.sorobanRpcUrl)
              /\ credentials.network = "custom"
           THEN thrown = <<"Custom Soroban RPC URL required for custom network">>
           ELSE IF cur.resource = "soroban" /\ credentials.sorobanRpcUrl \in InsecureUrls
           THEN thrown = <<"Cannot connect to insecure server">>
           ELSE thrown = UnknownSelectorError

C12_Witness ==
    /\ UnknownSelector
    /\ cur.resource = "dex" /\ cur.operation = "getInfo"
    /\ thrown = <<"Unknown DEX operation: ", "getInfo">>
    /\ continueOnFail /\ returnData[i - 1].json = [error |-> thrown]

KnownEvents == {"transactions", "operations", "payments", "effects", "ledgers", "trades"}

\* the activation has read an event parameter that is not a known event
UnknownEvent == tpc # "idle" /\ event # NoValue /\ event \notin KnownEvents

C13_Step ==
    /\ UnknownEvent' =>
          /\ tpc' = "failed"
          /\ tThrown' = <<"Unknown event type: ", event'>>
    /\ tpc' = "failed" =>
          /\ subs' = <<>> /\ closeFunction' = NoHandle
          /\ teardowns' = 0 /\ emitted' = <<>>
    /\ tpc = "failed" => tpc' = "idle"

CallsIn(tr) == SelectSeq(tr, LAMBDA e : e.ev \in NetworkCalls)

C14_State ==
    /\ pc \in {"loop", "await"} => Len(returnData) = i - 1
    /\ pc = "await" =>
          /\ pending \in NetworkCalls
          /\ \A k \in 1..Len(trace) : trace[k].item = i
          /\ CallsIn(trace) # <<>>
          /\ CallsIn(trace)[Len(CallsIn(trace))].ev = pending
          /\ Len(responses) = Len(CallsIn(trace)) - 1
    /\ pc # "await" => pending = "none"

C14_Step ==
    (pc \in {"loop", "await"} /\ trace' # trace) =>
        /\ Len(returnData) = i - 1
        /\ \A k \in 1..Len(trace') : trace'[k].item = i
        /\ pc = "loop" => (i = 1 \/ cur # NoItem)

\* C14: whenever item k reads a parameter or issues a network call, the results
\* of items 1..k-1 are already in returnData; while a call is awaited it is the
\* only one outstanding, it belongs to the current item, and every earlier call
\* of the item has been answered.
C14_Sequential == [][C14_State' /\ C14_Step]_vars

C14_Witness ==
    /\ pc = "await" /\ i = 2 /\ Len(returnData) = 1
    /\ pending = "submitTransaction"
    /\ Origin(returnData[1].json) = 1
    /\ trace[Len(trace)] = [item |-> 2, ev |-> "submitTransaction"]

\* C15: an item of asset / getAssetInfo with assetCode 'XLM' yields
\* {type: 'native', code: 'XLM', issuer: null} whatever assetIssuer and the
\* credentials are, with no network call, no signature and no error.
C15_NativeInfo ==
    (cur # NoItem /\ cur.resource = "asset" /\ cur.operation = "getAssetInfo"
     /\ cur.assetCode = "XLM") =>
        /\ pc \in {"loop", "done"}
        /\ thrown = <<>>
        /\ NoNetworkCall
        /\ \A k \in 1..Len(trace) : trace[k].ev = "getNodeParameter"
        /\ returnData[i - 1].json = [type |-> "native", code |-> "XLM", issuer |-> "null"]

C15_Witness ==
    /\ cur # NoItem /\ cur.operation = "getAssetInfo"
    /\ cur.assetCode = "XLM" /\ cur.assetIssuer = "GISSUER"
    /\ credentials.secretKey = "" /\ ~continueOnFail
    /\ pc = "done"
    /\ returned = << <<[json |-> [type |-> "native", code |-> "XLM", issuer |-> "null"]]>> >>

\* the operations the README marks as not requiring a secret key
KeylessOperations ==
    {"generateKeypair", "getInfo", "fundTestnet", "getAssetInfo", "getOrderbook",
     "getTrades", "getTransaction", "submitXdr", "getLatest", "getBySequence",
     "getFeeStats", "getHealth"}

\* C16: an item of an operation the README marks as not requiring a secret key
\* never fails with a 'Secret key required ...' error, with or without a
\* configured key, and never signs: no sign step occurs and no call that
\* carries a transaction signed by the node is issued.
C16_Keyless ==
    (cur # NoItem /\ cur.operation \in KeylessOperations
     /\ cur.operation \in OperationsOf(cur.resource)) =>
        /\ thrown \notin SecretKeyMessages
        /\ \A k \in 1..Len(trace) : trace[k].ev \notin {"sign", "build", "assemble"}
        /\ pending # "sendTransaction"

C16_Witness ==
    /\ cur # NoItem /\ cur.operation = "submitXdr"
    /\ Falsy(credentials.secretKey) /\ keypair = NoValue
    /\ pc = "done" /\ thrown = <<>>
    /\ returnData[1].json = [from |-> "submitTransaction", request |-> 1, body |-> "full"]

\* an item of account / fundTestnet has been dispatched
FundItem == cur # NoItem /\ cur.resource = "account" /\ cur.operation = "fundTestnet"

\* C17: on testnet and futurenet a fundTestnet item issues exactly one
\* Friendbot request and no other call, and its result is the response data
\* of that request; on public and custom it fails with 'Friendbot only
\* available on testnet and futurenet' before any request is made.
C17_Friendbot ==
    FundItem =>
        IF credentials.network \in {"testnet", "futurenet"}
        THEN /\ Len(CallsIn(trace)) = 1
             /\ CallsIn(trace)[1].ev = "friendbot"
             /\ pc = "await" => pending = "friendbot"
             /\ thrown \in {<<>>, UPSTREAM_ERROR}
             /\ thrown = UPSTREAM_ERROR => responses = <<[ok |-> FALSE, body |-> "error"]>>
             /\ (pc # "await" /\ thrown = <<>>) =>
                   returnData[i - 1].json =
                       [from |-> "friendbot", request |-> i - 1, body |-> responses[1].body]
        ELSE /\ thrown = <<"Friendbot only available on testnet and futurenet">>
             /\ NoNetworkCall
             /\ pc # "await"

C17_Witness ==
    /\ FundItem /\ credentials.network = "futurenet"
    /\ pc = "done" /\ i = 2 /\ thrown = <<>>
    /\ CallsIn(trace) = <<[item |-> 1, ev |-> "friendbot"]>>
    /\ returnData[1].json = [from |-> "friendbot", request |-> 1, body |-> "full"]

\* an item of soroban / simulateTransaction has been dispatched
SimulateItem ==
    cur # NoItem /\ cur.resource = "soroban" /\ cur.operation = "simulateTransaction"

\* C18: a simulateTransaction item never signs, assembles or sends: its calls
\* are getAccount then simulateTransaction at most, and once the simulation
\* call has resolved the item's result is what it resolved with, a simulation
\* error included, and no error is thrown.
C18_SimulateOnly ==
    SimulateItem =>
        /\ \A k \in 1..Len(trace) :
              trace[k].ev \notin {"sign", "assemble", "sendTransaction", "submitTransaction"}
        /\ pending \in {"none", "getAccount", "simulateTransaction"}
        /\ Len(CallsIn(trace)) <= 2
        /\ \A k \in 1..Len(CallsIn(trace)) :
              CallsIn(trace)[k].ev = <<"getAccount", "simulateTransaction">>[k]
        /\ (Len(responses) = 2 /\ responses[2].ok) =>
              /\ pc \in {"loop", "done"}
              /\ thrown = <<>>
              /\ returnData[i - 1].json =
                    [from |-> "simulateTransaction", request |-> i - 1,
                     body |-> responses[2].body]

C18_Witness ==
    /\ SimulateItem /\ pc = "done" /\ thrown = <<>>
    /\ responses = <<[ok |-> TRUE, body |-> "full"], [ok |-> TRUE, body |-> "simError"]>>
    /\ returnData[i - 1].json =
          [from |-> "simulateTransaction", request |-> i - 1, body |-> "simError"]

AccountEvents == {"transactions", "operations", "payments", "effects"}

\* C19: the stream of an activation is opened on the endpoint named by the
\* event, from the configured cursor; it is scoped to accountId when the event
\* is transactions, operations, payments or effects and accountId is not empty,
\* and is the global stream otherwise, accountId being ignored for ledgers and
\* trades.
C19_StreamSource ==
    tpc = "active" =>
        /\ event \in KnownEvents
        /\ Len(subs) >= 1
        /\ subs[1].endpoint = event
        /\ subs[1].cursor = cursor
        /\ subs[1].forAccount =
              IF event \in AccountEvents /\ accountId # "" THEN accountId ELSE NoValue

C19_Witness ==
    /\ tpc = "active" /\ event = "effects" /\ accountId = "GACCOUNT" /\ cursor = "12345"
    /\ subs = <<[endpoint |-> "effects", forAccount |-> "GACCOUNT", cursor |-> "12345",
                 open |-> TRUE, closeCalls |-> 0]>>

MutatingOperations ==
    {"createAccount", "mergeAccount", "setData", "setOptions", "sendPayment",
     "pathPayment", "createClaimableBalance", "claimBalance", "changeTrust",
     "issueAsset", "createSellOffer", "createBuyOffer", "cancelOffer"}

\* an item of a mutating Horizon operation has been dispatched
MutatingItem ==
    /\ cur # NoItem
    /\ cur.operation \in MutatingOperations \cap OperationsOf(cur.resource)

\* what the item did besides reading parameters
StepsOf(tr) == SelectSeq(tr, LAMBDA e : e.ev # "getNodeParameter")

\* C20: the steps of an item of a mutating Horizon operation are a prefix of
\* load account, build, sign, submit: the one submitTransaction comes after the
\* signature made in the same item, nothing is done without a configured key,
\* and when loading the account fails the item ends there with that error.
C20_Pipeline ==
    MutatingItem =>
        /\ Len(StepsOf(trace)) <= 4
        /\ \A k \in 1..Len(StepsOf(trace)) :
              /\ StepsOf(trace)[k].ev =
                    <<"loadAccount", "build", "sign", "submitTransaction">>[k]
              /\ StepsOf(trace)[k].item = trace[1].item
        /\ Len(StepsOf(trace)) \in {0, 1, 4}
        /\ keypair = NoValue => StepsOf(trace) = <<>>
        /\ (responses # <<>> /\ ~responses[1].ok) =>
              /\ Len(StepsOf(trace)) = 1
              /\ thrown = UPSTREAM_ERROR
              /\ pc # "await"
        /\ pc = "await" => pending = StepsOf(trace)[Len(StepsOf(trace))].ev

C20_Witness ==
    /\ MutatingItem /\ cur.operation = "createBuyOffer"
    /\ pc = "done" /\ thrown = <<>>
    /\ Len(StepsOf(trace)) = 4
    /\ responses = <<[ok |-> TRUE, body |-> "full"], [ok |-> TRUE, body |-> "full"]>>
    /\ returnData[i - 1].json =
          [from |-> "submitTransaction", request |-> i - 1, body |-> "full"]

\* an item of soroban / invokeContract has been dispatched
InvokeItem ==
    cur # NoItem /\ cur.resource = "soroban" /\ cur.operation = "invokeContract"

\* C21: the steps of an invokeContract item are a prefix of get account, build,
\* simulate, assemble, sign, send; when the simulation resolves with a
\* simulation error the item fails with 'Simulation failed: <error>' and
\* nothing is assembled, signed or sent; otherwise the assembled transaction
\* is signed and sent once.
C21_SimulateFirst ==
    InvokeItem =>
        /\ Len(StepsOf(trace)) <= 6
        /\ \A k \in 1..Len(StepsOf(trace)) :
              StepsOf(trace)[k].ev =
                  <<"getAccount", "build", "simulateTransaction", "assemble", "sign",
                    "sendTransaction">>[k]
        /\ (Len(responses) >= 2 /\ responses[2].body = "simError") =>
              /\ thrown = <<"Simulation failed: ", "simError">>
              /\ Len(StepsOf(trace)) = 3
              /\ pc # "await" /\ pending = "none"
        /\ (Len(responses) >= 2 /\ responses[2].body = "full") =>
              /\ Len(StepsOf(trace)) = 6
              /\ Len(responses) = 2 => (pc = "await" /\ pending = "sendTransaction")
        /\ (Len(responses) = 3 /\ responses[3].ok) =>
              /\ thrown = <<>>
              /\ returnData[i - 1].json =
                    [from |-> "sendTransaction", request |-> i - 1,
                     body |-> responses[3].body]

C21_Witness ==
    /\ InvokeItem /\ continueOnFail /\ pc = "done"
    /\ responses = <<[ok |-> TRUE, body |-> "full"], [ok |-> TRUE, body |-> "simError"]>>
    /\ returnData[i - 1].json = [error |-> <<"Simulation failed: ", "simError">>]

\* an item of the soroban resource has been dispatched
SorobanItem == cur # NoItem /\ cur.resource = "soroban"

\* the item failed on the given message before any parameter after resource
\* and operation was read and before any network call
FailsAtOnce(msg) ==
    /\ thrown = msg
    /\ sorobanServer = NoValue
    /\ NoNetworkCall
    /\ Len(trace) = 2
    /\ \A k \in 1..Len(trace) : trace[k].ev = "getNodeParameter"

\* C22: a soroban item's RPC client is built with the credential override
\* whenever the override is non-empty, on every network, and otherwise with the
\* fixed default of the selected network; on the custom network without an
\* override the item fails with 'Custom Soroban RPC URL required for custom
\* network', for getHealth as well and whether or not a signing key is set.
C22_RpcUrl ==
    SorobanItem =>
        /\ sorobanRpcUrl = credentials.sorobanRpcUrl
        /\ IF sorobanRpcUrl # ""
           THEN IF sorobanRpcUrl \in InsecureUrls
                THEN FailsAtOnce(NewServer(sorobanRpcUrl).value)
                ELSE sorobanServer = sorobanRpcUrl
           ELSE CASE network = "public" -> sorobanServer = "https://soroban.stellar.org"
                  [] network = "testnet" ->
                        sorobanServer = "https://soroban-testnet.stellar.org"
                  [] network = "futurenet" ->
                        sorobanServer = "https://rpc-futurenet.stellar.org"
                  [] network = "custom" ->
                        FailsAtOnce(<<"Custom Soroban RPC URL required for custom network">>)
        /\ (sorobanServer # NoValue /\ cur.operation = "getHealth") =>
              \E k \in 1..Len(trace) : trace[k].ev = "getHealth"

C22_Witness ==
    /\ SorobanItem /\ cur.operation = "getHealth" /\ keypair # NoValue
    /\ network = "custom" /\ sorobanRpcUrl = ""
    /\ continueOnFail /\ pc = "done"
    /\ returnData[i - 1].json =
          [error |-> <<"Custom Soroban RPC URL required for custom network">>]

\* a node type has warned exactly when its flag is set, and then once
C23_State ==
    \A n \in NodeTypes : warnings[n] = IF licensingLogged[n] THEN 1 ELSE 0

\* a set flag stays set and its node type warns no more; a flag is set only by
\* the start of its own node type, which warns once
C23_Step ==
    \A n \in NodeTypes :
        /\ licensingLogged[n] => (licensingLogged'[n] /\ warnings'[n] = warnings[n])
        /\ (~licensingLogged[n] /\ licensingLogged'[n]) =>
              /\ warnings'[n] = warnings[n] + 1
              /\ IF n = "stellar" THEN pc = "idle" /\ pc' # "idle"
                 ELSE tpc = "idle" /\ tpc' # "idle"
        /\ (n = "stellar" /\ pc = "idle" /\ pc' # "idle") => licensingLogged'[n]
        /\ (n = "stellarTrigger" /\ tpc = "idle" /\ tpc' # "idle") => licensingLogged'[n]

\* C23: each node type logs the licensing notice at most once per process: its
\* flag goes from unset to set on the first execute / trigger call of that node
\* type, is never reset, and the flags of the two node types are separate.
C23_LogOnce == []C23_State /\ [][C23_Step]_vars

\* both node types have been started in the process and each has warned once
C23_Witness ==
    /\ licensingLogged = [stellar |-> TRUE, stellarTrigger |-> TRUE]
    /\ warnings = [stellar |-> 1, stellarTrigger |-> 1]
    /\ pc = "done" /\ nItems = 2 /\ tpc = "idle"

\* the loop has been entered or left through its end
InLoop == pc \in {"loop", "await", "done"}

\* what lines 520-527 derive from the credentials of the run
C24_State ==
    InLoop =>
        /\ network = credentials.network
        /\ horizonUrl = getHorizonUrl(network, credentials.customHorizonUrl).value
        /\ networkPassphrase =
              getNetworkPassphrase(network, credentials.customNetworkPassphrase).value
        /\ keypair = IF credentials.secretKey = "" THEN NoValue
                     ELSE KeypairFromSecret(credentials.secretKey).value

\* a step of an item, whether the item succeeds, fails or awaits
C24_Step ==
    (pc \in {"loop", "await"}) =>
        /\ keypair' = keypair
        /\ horizonUrl' = horizonUrl
        /\ networkPassphrase' = networkPassphrase
        /\ network' = network
        /\ credentials' = credentials

\* C24: the signing keypair, the Horizon server and the network passphrase are
\* derived once from the credentials before the first item and no item,
\* successful or failed, changes them.
C24_DerivedOnce == []C24_State /\ [][C24_Step]_vars

\* a run with a signing key has ended after a failed and a successful item
C24_Witness ==
    /\ pc = "done" /\ nItems = 2 /\ keypair = "GSOURCE"
    /\ Len(returnData) = 2
    /\ IsErrorResult(returnData[1]) /\ ~IsErrorResult(returnData[2])

\* the cases of the claim: a custom network without its Horizon URL or its
\* passphrase, a secret key that does not parse
MissingCustom(c) ==
    c.network = "custom" /\ (c.customHorizonUrl = "" \/ c.customNetworkPassphrase = "")

InvalidSecret(c) == c.secretKey \notin {"", ValidSecret}

\* the error of the first of lines 520-526 that throws
SetupError(c) ==
    IF c.network = "custom" /\ c.customHorizonUrl = ""
    THEN <<"Custom Horizon URL required for custom network">>
    ELSE IF c.network = "custom" /\ c.customNetworkPassphrase = ""
    THEN <<"Custom network passphrase required for custom network">>
    ELSE IF c.customHorizonUrl \in InsecureUrls
    THEN NewServer(c.customHorizonUrl).value
    ELSE KeypairFromSecret(c.secretKey).value

\* execute is called with credentials of one of the cases
C25_Step ==
    (pc = "idle" /\ pc' # "idle" /\ (MissingCustom(credentials') \/ InvalidSecret(credentials')))
        => /\ pc' = "rejected"
           /\ thrown' = SetupError(credentials')
           /\ returned' = <<>> /\ returnData' = <<>>
           /\ trace' = <<>> /\ i' = 0

\* the rejection stands until the host takes it: no item runs, nothing is returned
C25_State ==
    (pc # "idle" /\ (MissingCustom(credentials) \/ InvalidSecret(credentials)))
        => /\ pc = "rejected"
           /\ returned = <<>> /\ returnData = <<>> /\ cur = NoItem

\* C25: an error raised before the loop is not covered by tolerate-failures: on
\* a custom network without its Horizon URL or its passphrase, or with a secret
\* key that does not parse, execute rejects with zero results, with
\* tolerate-failures enabled and any number of items, zero included.
C25_SetupRejects == []C25_State /\ [][C25_Step]_vars

C25_Witness ==
    /\ pc = "rejected" /\ continueOnFail /\ nItems = 2
    /\ credentials.network = "testnet" /\ credentials.secretKey = "not-a-secret"
    /\ thrown = <<"invalid encoded string">>
    /\ returned = <<>> /\ returnData = <<>>

\* the asset a (code, issuer) pair of parameters stands for
ExpectedAsset(code, issuer) ==
    IF IsCredit(code, issuer)
    THEN [type |-> "credit", code |-> code, issuer |-> issuer]
    ELSE [type |-> "native", code |-> "XLM", issuer |-> NoValue]

\* C26: in sendPayment, pathPayment, createClaimableBalance, getAssetInfo,
\* getOrderbook and the offer operations an asset is native exactly when its
\* code is 'XLM' or its issuer is empty, and the custom asset (code, issuer)
\* otherwise; a sendPayment with a non-XLM code and an empty issuer that is
\* submitted pays native XLM.
C26_AssetResolution ==
    cur # NoItem =>
        /\ (cur.operation \in {"sendPayment", "pathPayment", "createClaimableBalance"}
              /\ request # <<>>) =>
              /\ Len(request) = 1
              /\ request[1].asset = ExpectedAsset(cur.assetCode, cur.assetIssuer)
        /\ (cur.operation \in {"getOrderbook", "createSellOffer", "createBuyOffer"}
              /\ request # <<>>) =>
              /\ Len(request) = 1
              /\ request[1].asset = ExpectedAsset(cur.assetCode, cur.assetIssuer)
              /\ request[1].other = ExpectedAsset(cur.buyingCode, cur.buyingIssuer)
        /\ cur.operation = "getAssetInfo" =>
              IF IsCredit(cur.assetCode, cur.assetIssuer)
              THEN thrown = <<>> => \E k \in 1..Len(trace) : trace[k].ev = "assets"
              ELSE /\ NoNetworkCall /\ thrown = <<>>
                   /\ returnData[i - 1].json =
                         [type |-> "native", code |-> "XLM", issuer |-> "null"]
        /\ (cur.operation = "sendPayment" /\ cur.assetCode # "XLM" /\ cur.assetIssuer = ""
              /\ Len(responses) = 2 /\ responses[2].ok) =>
              /\ thrown = <<>>
              /\ request = <<Operation("payment", Native, NoAsset, {})>>
              /\ returnData[i - 1].json.from = "submitTransaction"

C26_Witness ==
    /\ cur # NoItem /\ cur.operation = "sendPayment"
    /\ cur.assetCode = "USD" /\ cur.assetIssuer = ""
    /\ pc = "done" /\ thrown = <<>>
    /\ request[1].asset.type = "native"
    /\ returnData[i - 1].json.from = "submitTransaction"

\* an item of asset / getAssetInfo whose assets query resolved without a record
UnknownAssetItem ==
    /\ cur # NoItem /\ cur.operation = "getAssetInfo"
    /\ responses = <<[ok |-> TRUE, body |-> "empty"]>>

\* C27: a getAssetInfo item for a non-native asset the network has no record
\* of does not fail: with tolerate-failures enabled or disabled the item's
\* result {error: 'Asset not found'} is appended and the loop goes on, and the
\* entry is the one the catch block would append for an error of that message.
C27_AssetNotFound ==
    UnknownAssetItem =>
        /\ IsCredit(cur.assetCode, cur.assetIssuer)
        /\ thrown = <<>>
        /\ pc = IF i > nItems THEN "done" ELSE "loop"
        /\ Len(returnData) = i - 1
        /\ returnData[i - 1].json = [error |-> <<"Asset not found">>]
        /\ IsErrorResult(returnData[i - 1])
        /\ <<returnData[i - 1]>> = PushError(<<>>, <<"Asset not found">>)

\* the first item of two found no record, failures are not tolerated, and the
\* loop is at the second item
C27_Witness ==
    /\ UnknownAssetItem /\ ~continueOnFail
    /\ nItems = 2 /\ i = 2 /\ pc = "loop"
    /\ returnData = <<[json |-> [error |-> <<"Asset not found">>]]>>

\* C28: the teardown callback is not guarded against repetition: the stored
\* close handle is never cleared, so after k teardown calls the stream's close
\* handle has been invoked k times, and no teardown call throws.
C28_RepeatedTeardown ==
    tpc = "active" =>
        /\ closeFunction = 1
        /\ Len(subs) = 1
        /\ subs[closeFunction].closeCalls = teardowns
        /\ tThrown = <<>>

C28_Witness ==
    /\ tpc = "active" /\ teardowns = 2
    /\ closeFunction = 1 /\ subs[1].closeCalls = 2 /\ ~subs[1].open

\* records that reached onmessage after the stream's close handle was invoked
LateRecords == {k \in 1..Len(delivered) : ~delivered[k].open}

\* C29: the message handler keeps no closed state: a record that reaches it
\* after the teardown callback has closed the stream is emitted like any other.
C29_LateEmit ==
    /\ tpc = "active" => (teardowns = 0 <=> subs[1].open)
    /\ \A k \in LateRecords :
          /\ teardowns > 0
          /\ k <= Len(emitted)
          /\ emitted[k] = << <<[json |-> delivered[k].record]>> >>
    /\ Len(emitted) >= Cardinality(LateRecords)

C29_Witness ==
    /\ tpc = "active" /\ teardowns = 1
    /\ Len(delivered) = 2 /\ delivered[1].open /\ ~delivered[2].open
    /\ emitted = << << <<[json |-> delivered[1].record]>> >>,
                    << <<[json |-> delivered[2].record]>> >> >>

\* an item of account / setOptions has built its transaction
SetOptionsBuilt ==
    /\ cur # NoItem /\ cur.operation = "setOptions"
    /\ \E k \in 1..Len(trace) : trace[k].ev = "build"

\* the option fields carried by the operations of the builder, in order
FieldsOf(ops) == [k \in 1..Len(ops) |-> ops[k].fields]

\* C30: the transaction of a setOptions item holds one or two operations, all
\* of them setOptions: one per non-empty field among homeDomain and
\* inflationDest, in that order, and a single empty one when both are empty.
C30_SetOptions ==
    /\ (cur # NoItem /\ cur.operation = "setOptions" /\ request # <<>>) => SetOptionsBuilt
    /\ SetOptionsBuilt =>
          /\ Len(request) \in 1..2
          /\ \A k \in 1..Len(request) :
                request[k].type = "setOptions" /\ request[k].asset = NoAsset
          /\ FieldsOf(request) =
                CASE cur.homeDomain # "" /\ cur.inflationDest # "" ->
                        <<{"homeDomain"}, {"inflationDest"}>>
                  [] cur.homeDomain # "" /\ cur.inflationDest = "" -> <<{"homeDomain"}>>
                  [] cur.homeDomain = "" /\ cur.inflationDest # "" -> <<{"inflationDest"}>>
                  [] cur.homeDomain = "" /\ cur.inflationDest = "" -> <<{}>>

C30_Witness ==
    /\ SetOptionsBuilt /\ cur.homeDomain = "" /\ cur.inflationDest = ""
    /\ request = <<Operation("setOptions", NoAsset, NoAsset, {})>>
    /\ pc = "done" /\ thrown = <<>>
    /\ returnData[i - 1].json.from = "submitTransaction"

====
